---- MODULE Spec2Model ----
(***************************************************************************)
(* A model of release-suite: the version-computation engine               *)
(* (lib/versioning.js, lib/git.js, lib/utils.js, computeVersion) over a   *)
(* small git repository with a linear history.                            *)
(*                                                                         *)
(* JavaScript strings are sequences of characters; a character is a       *)
(* one-character TLA+ string, or a bracketed name for a character that    *)
(* has no printable form.                                                  *)
(***************************************************************************)
EXTENDS Integers, Sequences, FiniteSets, TLC

VARIABLES hasRepo, commits, tags, manifest, result, subject, body, bumpType,
          versionIn, bumpIn, versionOut, argv, stdout, stderr, exitCode,
          files, buckets, section, ghCalls, pushed

\* the working directory: the repository and package.json
repoVars == <<hasRepo, commits, tags, manifest>>
\* the commit detectBumpType is called with, and what it returned
detectVars == <<subject, body, bumpType>>
\* the arguments bumpVersion is called with, and what it returned
bumpVars == <<versionIn, bumpIn, versionOut>>
\* the process of the command line: its arguments, output streams and exit code
procVars == <<argv, stdout, stderr, exitCode>>
\* what the tools leave behind: the files they write in the working directory,
\* the buckets of categorize and the section buildSection rendered from
\* them, the calls of the gh command line, and the tags pushed to origin
worldVars == <<files, buckets, section, ghCalls, pushed>>

vars == <<repoVars, result, detectVars, bumpVars, procVars, worldVars>>

(***************************************************************************)
(* Characters and character classes of the regular expressions             *)
(***************************************************************************)
\* line feed, the separator git log puts between two records
LF == "<LF>"
\* ASCII unit separator, %x1f of the log format
US == "<US>"
TAB == "<TAB>"
\* U+1F680 ROCKET, inside U+1F300..U+1FAFF
Rocket == "<U+1F680>"
\* U+2728 SPARKLES, outside U+1F300..U+1FAFF
Sparkles == "<U+2728>"

UpperChars == <<"A","B","C","D","E","F","G","H","I","J","K","L","M",
                "N","O","P","Q","R","S","T","U","V","W","X","Y","Z">>
LowerChars == <<"a","b","c","d","e","f","g","h","i","j","k","l","m",
                "n","o","p","q","r","s","t","u","v","w","x","y","z">>
DigitChars == <<"0","1","2","3","4","5","6","7","8","9">>

Range(f) == {f[i] : i \in DOMAIN f}

\* the i flag of a regular expression: letters compare by their lower case
ToLower(c) ==
  IF c \in Range(UpperChars)
    THEN LowerChars[CHOOSE i \in 1..26 : UpperChars[i] = c]
    ELSE c

LowerSeq(s) == [i \in 1..Len(s) |-> ToLower(s[i])]

\* \s
IsSpace(c) == c \in {" ", TAB, LF}
\* \w
IsWord(c) == c \in Range(UpperChars) \cup Range(LowerChars) \cup Range(DigitChars) \cup {"_"}
\* . (any character but a line terminator)
IsDot(c) == c /= LF
\* [\u{1F300}-\u{1FAFF}]
IsEmoji(c) == c \in {Rocket}

\* s from index i to its end
Drop(s, i) == SubSeq(s, i, Len(s))

\* the first index >= i of s that holds no white space (Len(s)+1 when none)
SkipSpaces(s, i) ==
  IF \E k \in i..Len(s) : ~IsSpace(s[k])
    THEN CHOOSE k \in i..Len(s) : ~IsSpace(s[k]) /\ \A m \in i..(k-1) : IsSpace(s[m])
    ELSE Len(s) + 1

\* String.prototype.trim
Trim(s) ==
  IF \A k \in 1..Len(s) : IsSpace(s[k]) THEN <<>>
  ELSE LET a == SkipSpaces(s, 1)
           b == CHOOSE k \in 1..Len(s) : ~IsSpace(s[k]) /\ \A m \in (k+1)..Len(s) : IsSpace(s[m])
       IN SubSeq(s, a, b)

\* s starts with the characters of p, compared without case
StartsWithI(s, p) ==
  /\ Len(s) >= Len(p)
  /\ \A i \in 1..Len(p) : ToLower(s[i]) = ToLower(p[i])

\* p occurs in s at index i, compared without case
OccursAtI(s, p, i) ==
  /\ i + Len(p) - 1 <= Len(s)
  /\ \A k \in 1..Len(p) : ToLower(s[i + k - 1]) = ToLower(p[k])

(***************************************************************************)
(* lib/versioning.js: normalizeSubject                                      *)
(***************************************************************************)
\* .replace(/^:\S+:\s*/, ""): ':' , a greedy run of non-space characters that
\* backtracks to its last ':' , then the white space after it
StripShortcode(s) ==
  LET ends == {j \in 3..Len(s) : s[j] = ":" /\ \A k \in 2..(j-1) : ~IsSpace(s[k])}
  IN IF Len(s) >= 3 /\ s[1] = ":" /\ ends /= {}
       THEN LET j == CHOOSE e \in ends : \A o \in ends : o <= e
            IN Drop(s, SkipSpaces(s, j + 1))
       ELSE s

\* .replace(/^[\u{1F300}-\u{1FAFF}]+\s*/u, "")
StripEmoji(s) ==
  IF Len(s) >= 1 /\ IsEmoji(s[1])
    THEN LET n == CHOOSE e \in 1..Len(s) :
                    /\ \A k \in 1..e : IsEmoji(s[k])
                    /\ (e = Len(s) \/ ~IsEmoji(s[e + 1]))
         IN Drop(s, SkipSpaces(s, n + 1))
    ELSE s

\* normalizeSubject with the second replace skipped when the first one matched
normalizeSubject_OneBlock(s) ==
  Trim(IF StripShortcode(s) /= s THEN StripShortcode(s) ELSE StripEmoji(s))

normalizeSubject(s) == Trim(StripEmoji(StripShortcode(s)))

(***************************************************************************)
(* lib/versioning.js: COMMIT_RE and detectBumpType                          *)
(***************************************************************************)
CommitTypes ==
  << <<"f","e","a","t">>, <<"f","i","x">>, <<"r","e","f","a","c","t","o","r">>,
     <<"d","o","c","s">>, <<"c","h","o","r","e">>, <<"s","t","y","l","e">>,
     <<"t","e","s","t">>, <<"b","u","i","l","d">>, <<"p","e","r","f">>,
     <<"c","i">>, <<"c","l","e","a","n","u","p">>, <<"r","e","m","o","v","e">> >>

NoMatch == [matched |-> FALSE]

\* the rest of COMMIT_RE after the type, from index p of s: (\(.+\))?(!)?:
\* The scope group is tried first and .+ is greedy, so the last ')' that lets
\* the rest match closes the scope; group 3 is tried before it is skipped.
MatchTail(s, p, type) ==
  LET At(i, c) == i <= Len(s) /\ s[i] = c
      closes == {j \in (p+2)..Len(s) :
                   /\ At(p, "(")
                   /\ s[j] = ")"
                   /\ \A k \in (p+1)..(j-1) : IsDot(s[k])
                   /\ (At(j+1, ":") \/ (At(j+1, "!") /\ At(j+2, ":")))}
  IN IF closes /= {}
       THEN LET j == CHOOSE e \in closes : \A o \in closes : o <= e
            IN [matched |-> TRUE, type |-> type, bang |-> At(j+1, "!")]
       ELSE IF At(p, "!") /\ At(p+1, ":")
              THEN [matched |-> TRUE, type |-> type, bang |-> TRUE]
              ELSE IF At(p, ":")
                     THEN [matched |-> TRUE, type |-> type, bang |-> FALSE]
                     ELSE NoMatch

\* s.match(COMMIT_RE): the alternatives of group 1 are tried in order
CommitReMatch(s) ==
  LET hits == {i \in 1..Len(CommitTypes) :
                 /\ StartsWithI(s, CommitTypes[i])
                 /\ MatchTail(s, Len(CommitTypes[i]) + 1, CommitTypes[i]).matched}
  IN IF hits = {} THEN NoMatch
     ELSE LET i == CHOOSE h \in hits : \A o \in hits : h <= o
          IN MatchTail(s, Len(CommitTypes[i]) + 1, CommitTypes[i])

\* /^revert\b/i.test(s)
RevertWord == <<"r","e","v","e","r","t">>
RevertRe(s) ==
  /\ StartsWithI(s, RevertWord)
  /\ (Len(s) = 6 \/ ~IsWord(s[7]))

\* /BREAKING CHANGE/i.test(b)
BreakingPhrase == <<"B","R","E","A","K","I","N","G"," ","C","H","A","N","G","E">>
BreakingRe(b) == \E i \in 1..Len(b) : OccursAtI(b, BreakingPhrase, i)

\* detectBumpType with the breaking check moved before the revert check
detectBumpType_BreakingBeforeRevert(c) ==
  LET cleanSubject == normalizeSubject(c.subject)
      match == CommitReMatch(cleanSubject)
      breaking == BreakingRe(c.body) \/ (match.matched /\ match.bang)
  IN IF breaking THEN "major"
     ELSE IF RevertRe(cleanSubject) THEN "none"
     ELSE IF ~match.matched THEN "none"
     ELSE IF match.type = <<"f","e","a","t">> THEN "minor"
     ELSE IF match.type = <<"f","i","x">> THEN "patch"
     ELSE "none"

\* detectBumpType with the type mapping moved before the breaking check
detectBumpType_TypeBeforeBreaking(c) ==
  LET cleanSubject == normalizeSubject(c.subject)
      match == CommitReMatch(cleanSubject)
      breaking == BreakingRe(c.body) \/ (match.matched /\ match.bang)
  IN IF RevertRe(cleanSubject) THEN "none"
     ELSE IF match.matched /\ match.type = <<"f","e","a","t">> THEN "minor"
     ELSE IF match.matched /\ match.type = <<"f","i","x">> THEN "patch"
     ELSE IF breaking THEN "major"
     ELSE "none"

\* the type mapping of the documentation table: perf and refactor are patch
detectBumpType_PerfRefactorPatch(c) ==
  LET cleanSubject == normalizeSubject(c.subject)
      match == CommitReMatch(cleanSubject)
      breaking == BreakingRe(c.body) \/ (match.matched /\ match.bang)
  IN IF RevertRe(cleanSubject) THEN "none"
     ELSE IF breaking THEN "major"
     ELSE IF ~match.matched THEN "none"
     ELSE IF match.type = <<"f","e","a","t">> THEN "minor"
     ELSE IF match.type \in {<<"f","i","x">>, <<"p","e","r","f">>,
                             <<"r","e","f","a","c","t","o","r">>} THEN "patch"
     ELSE "none"

detectBumpType(c) ==
  LET cleanSubject == normalizeSubject(c.subject)
      match == CommitReMatch(cleanSubject)
      breaking == BreakingRe(c.body) \/ (match.matched /\ match.bang)
  IN IF RevertRe(cleanSubject) THEN "none"
     ELSE IF breaking THEN "major"
     ELSE IF ~match.matched THEN "none"
     ELSE IF match.type = <<"f","e","a","t">> THEN "minor"
     ELSE IF match.type = <<"f","i","x">> THEN "patch"
     ELSE "none"

(***************************************************************************)
(* JavaScript values                                                        *)
(***************************************************************************)
JsStr(s) == [type |-> "string", chars |-> s]
Num(n) == [type |-> "number", n |-> n]
Undefined == [type |-> "undefined"]
Null == [type |-> "null"]
NaN == [type |-> "NaN"]
\* the value of a call that did not return: a TypeError was thrown
TypeError == [type |-> "TypeError"]

\* a ?? b takes b for null and undefined only
Nullish(v) == v.type \in {"undefined", "null"}
\* the truth value of a string or of null: the empty string is false
Truthy(v) == v.type = "string" /\ v.chars /= <<>>

\* String.prototype.split with a one-character separator
RECURSIVE Split(_, _)
Split(s, sep) ==
  IF \E i \in 1..Len(s) : s[i] = sep
    THEN LET i == CHOOSE k \in 1..Len(s) : s[k] = sep /\ \A m \in 1..(k-1) : s[m] /= sep
         IN <<SubSeq(s, 1, i - 1)>> \o Split(Drop(s, i + 1), sep)
    ELSE <<s>>

\* Array.prototype.filter(Boolean) on an array of strings
RECURSIVE FilterBoolean(_)
FilterBoolean(a) ==
  IF a = <<>> THEN <<>>
  ELSE IF Head(a) = <<>> THEN FilterBoolean(Tail(a))
  ELSE <<Head(a)>> \o FilterBoolean(Tail(a))

DigitVal(c) == (CHOOSE i \in 1..10 : DigitChars[i] = c) - 1

\* the value of the digits of s from index i on, given the value acc so far
RECURSIVE DigitsValue(_, _, _)
DigitsValue(s, i, acc) ==
  IF i <= Len(s) /\ s[i] \in Range(DigitChars)
    THEN DigitsValue(s, i + 1, 10 * acc + DigitVal(s[i]))
    ELSE acc

\* parseInt(s, 10): white space, a sign, then the longest run of digits
parseInt(s) ==
  LET a == SkipSpaces(s, 1)
      signed == a <= Len(s) /\ s[a] \in {"-", "+"}
      d == IF signed THEN a + 1 ELSE a
  IN IF d <= Len(s) /\ s[d] \in Range(DigitChars)
       THEN IF signed /\ s[a] = "-"
              THEN Num(0 - DigitsValue(s, d, 0))
              ELSE Num(DigitsValue(s, d, 0))
       ELSE NaN

\* v || 0 for the value of parseInt
OrZero(v) == IF v.type = "number" /\ v.n /= 0 THEN v ELSE Num(0)

\* v + 1
PlusOne(v) == IF v.type = "number" THEN Num(v.n + 1) ELSE NaN

RECURSIVE NatToString(_)
NatToString(n) ==
  IF n < 10 THEN <<DigitChars[n + 1]>>
  ELSE NatToString(n \div 10) \o <<DigitChars[(n % 10) + 1]>>

\* `${v}` for a number, NaN or undefined
NumberToString(v) ==
  IF v.type = "number"
    THEN IF v.n < 0 THEN <<"-">> \o NatToString(0 - v.n) ELSE NatToString(v.n)
  ELSE IF v.type = "NaN" THEN <<"N","a","N">>
  ELSE <<"u","n","d","e","f","i","n","e","d">>

(***************************************************************************)
(* lib/versioning.js: bumpVersion                                           *)
(***************************************************************************)
\* base.split(".").map(n => parseInt(n, 10) || 0): one number per component
VersionParts(s) ==
  LET parts == Split(s, ".")
  IN [i \in 1..Len(parts) |-> OrZero(parseInt(parts[i]))]

\* const [major, minor, patch] = ...: a missing element is undefined
ElementAt(a, i) == IF i <= Len(a) THEN a[i] ELSE Undefined

bumpVersion(base, bump) ==
  IF base.type /= "string" THEN TypeError
  ELSE LET parts == VersionParts(base.chars)
           major == ElementAt(parts, 1)
           minor == ElementAt(parts, 2)
           patch == ElementAt(parts, 3)
           zero  == <<"0">>
           dot   == <<".">>
       IN IF bump = "major"
            THEN JsStr(NumberToString(PlusOne(major)) \o dot \o zero \o dot \o zero)
          ELSE IF bump = "minor"
            THEN JsStr(NumberToString(major) \o dot \o NumberToString(PlusOne(minor)) \o dot \o zero)
          ELSE JsStr(NumberToString(major) \o dot \o NumberToString(minor) \o dot \o NumberToString(PlusOne(patch)))

(***************************************************************************)
(* The repository in the working directory, as git answers for it.         *)
(* commits is the history of HEAD, oldest first; tags is a set of          *)
(* [name, at, annotated, made] with at the index of the tagged commit and  *)
(* made the place of the tag in the order the tags were created in.         *)
(***************************************************************************)
HeadRef == <<"H","E","A","D">>

\* the %H of the commit at index i
HashOf(i) == <<"h", DigitChars[i + 1]>>

\* %H%x1f%s%x1f%b of the commit at index i; %b ends a body with a line feed
FormatCommit(i) ==
  HashOf(i) \o <<US>> \o commits[i].subject \o <<US>> \o
  (IF commits[i].body = <<>> THEN <<>> ELSE commits[i].body \o <<LF>>)

\* the records of the commits lo+1..hi, newest first, one line feed between two
RECURSIVE LogOutput(_, _)
LogOutput(lo, hi) ==
  IF hi <= lo THEN <<>>
  ELSE IF hi = lo + 1 THEN FormatCommit(hi)
  ELSE FormatCommit(hi) \o <<LF>> \o LogOutput(lo, hi - 1)

Failed == [ok |-> FALSE]
Ok(out) == [ok |-> TRUE, out |-> out]

\* the commit a revision names: HEAD, or a tag of exactly that name
ResolveRef(name) ==
  IF ~hasRepo THEN Failed
  ELSE IF name = HeadRef
    THEN IF commits = <<>> THEN Failed ELSE Ok(Len(commits))
  ELSE IF \E t \in tags : t.name = name
    THEN Ok((CHOOSE t \in tags : t.name = name).at)
  ELSE Failed

\* tag t names its commit before tag o of the same commit does: an annotated
\* tag goes before a lightweight one, and a later annotated tag before an
\* earlier one
Preferred(t, o) ==
  \/ t.annotated /\ ~o.annotated
  \/ t.annotated = o.annotated /\ t.made >= o.made

\* git describe --tags --abbrev=0: the name of the tag of the commit nearest
\* to HEAD that holds one
GitDescribe ==
  IF ~hasRepo \/ tags = {} THEN Failed
  ELSE Ok((CHOOSE t \in tags :
             \A o \in tags : o.at < t.at \/ (o.at = t.at /\ Preferred(t, o))).name)

\* git log <range> --pretty=format:%H%x1f%s%x1f%b, range being R or A..R
GitLog(range) ==
  LET dots == {i \in 1..(Len(range) - 1) : range[i] = "." /\ range[i + 1] = "."}
  IN IF dots = {}
       THEN LET r == ResolveRef(range)
            IN IF r.ok THEN Ok(LogOutput(0, r.out)) ELSE Failed
       ELSE LET i == CHOOSE d \in dots : \A o \in dots : d <= o
                a == ResolveRef(SubSeq(range, 1, i - 1))
                b == ResolveRef(Drop(range, i + 2))
            IN IF a.ok /\ b.ok THEN Ok(LogOutput(a.out, b.out)) ELSE Failed

(***************************************************************************)
(* lib/utils.js                                                             *)
(***************************************************************************)
\* run(cmd, cwd): the trimmed output of the command, or the exception
run(cmd) == IF cmd.ok THEN Ok(Trim(cmd.out)) ELSE Failed

ZeroVersion == <<"0",".","0",".","0">>

\* manifest is package.json: missing, not JSON, the JSON value null, or an
\* object whose version field is a string or is absent (undefined)
readPackageVersion ==
  IF manifest.kind = "object" THEN manifest.version ELSE JsStr(ZeroVersion)

(***************************************************************************)
(* lib/git.js                                                               *)
(***************************************************************************)
\* tag.replace(/^v/, "")
StripLeadingV(s) == IF Len(s) >= 1 /\ s[1] = "v" THEN Tail(s) ELSE s

getLastTag ==
  LET r == run(GitDescribe)
  IN IF r.ok THEN JsStr(StripLeadingV(r.out)) ELSE Null

getCommits(range) ==
  LET r == run(GitLog(range))
  IN IF r.ok THEN FilterBoolean(Split(r.out, LF)) ELSE <<>>

parseCommit(line) ==
  LET f == Split(line, US)
  IN [hash |-> f[1],
      subject |-> IF Len(f) >= 2 THEN f[2] ELSE <<>>,
      body |-> IF Len(f) >= 3 THEN f[3] ELSE <<>>]

(***************************************************************************)
(* computeVersion                                                           *)
(***************************************************************************)
\* let bump = null
NoBump == "null"

\* the loop without its guards on bump: the last minor or patch commit decides
RECURSIVE BumpLoop_LastWins(_, _, _)
BumpLoop_LastWins(cs, i, bump) ==
  IF i > Len(cs) THEN bump
  ELSE LET type == detectBumpType(cs[i])
       IN IF type = "major" THEN "major"
          ELSE IF type = "minor" THEN BumpLoop_LastWins(cs, i + 1, "minor")
          ELSE IF type = "patch" THEN BumpLoop_LastWins(cs, i + 1, "patch")
          ELSE BumpLoop_LastWins(cs, i + 1, bump)

\* the for loop over the parsed commits, from index i with bump so far
RECURSIVE BumpLoop(_, _, _)
BumpLoop(cs, i, bump) ==
  IF i > Len(cs) THEN bump
  ELSE LET type == detectBumpType(cs[i])
       IN IF type = "major" THEN "major"
          ELSE IF type = "minor" /\ bump /= "major" THEN BumpLoop(cs, i + 1, "minor")
          ELSE IF type = "patch" /\ bump = NoBump THEN BumpLoop(cs, i + 1, "patch")
          ELSE BumpLoop(cs, i + 1, bump)

\* the range without the last tag: the whole history of HEAD
RangeOf_WholeHistory(lastTag) == HeadRef

\* const range = lastTag ? `${lastTag}..HEAD` : "HEAD"
RangeOf(lastTag) ==
  IF Truthy(lastTag) THEN lastTag.chars \o <<".", ".">> \o HeadRef ELSE HeadRef

\* const commits = getCommits(range, cwd).map(parseCommit)
AnalyzedCommits ==
  LET lines == getCommits(RangeOf(getLastTag))
  IN [i \in 1..Len(lines) |-> parseCommit(lines[i])]

computeVersion ==
  LET pkgVersion == readPackageVersion
      lastTag == getLastTag
      baseVersion == IF Nullish(lastTag) THEN pkgVersion ELSE lastTag
      parsed == AnalyzedCommits
      bump == BumpLoop(parsed, 1, NoBump)
      nextVersion == bumpVersion(baseVersion, bump)
  IN IF Len(parsed) = 0
       THEN [hasRelease |-> FALSE, reason |-> "no-commits",
             baseVersion |-> baseVersion, commitsAnalyzed |-> 0]
     ELSE IF bump = NoBump
       THEN [hasRelease |-> FALSE, reason |-> "no-bump-detected",
             baseVersion |-> baseVersion, commitsAnalyzed |-> Len(parsed)]
     ELSE IF nextVersion = TypeError
       THEN TypeError
     ELSE [hasRelease |-> TRUE, baseVersion |-> baseVersion,
           nextVersion |-> nextVersion, bump |-> bump,
           commitsAnalyzed |-> Len(parsed)]

(***************************************************************************)
(* The inputs the model draws from                                          *)
(***************************************************************************)
\* the most commits a history holds
MaxCommits == 2
\* the most tags a repository holds
MaxTags == 1

Commit(s, b) == [subject |-> s, body |-> b]

NoText == <<>>
\* "BREAKING CHANGE: y"
BreakingLine == <<"B","R","E","A","K","I","N","G"," ","C","H","A","N","G","E",":"," ","y">>
\* two lines, the phrase on the second
BreakingSecondLine == <<"x",LF,"B","R","E","A","K","I","N","G"," ","C","H","A","N","G","E",":"," ","y">>
\* two paragraphs with an empty line between them
TwoParagraphs == <<"p",LF,LF,"q">>

\* the commits a developer makes
CommitPool ==
  { Commit(<<"f","e","a","t",":"," ","a">>, NoText),
    Commit(<<"f","i","x",":"," ","b">>, NoText),
    Commit(<<"c","h","o","r","e",":"," ","c">>, NoText),
    Commit(<<"f","e","a","t","!",":"," ","d">>, NoText),
    Commit(<<"f","i","x",":"," ","e">>, BreakingLine),
    Commit(<<"f","i","x",":"," ","e">>, BreakingSecondLine),
    Commit(<<"d","o","c","s",":"," ","f">>, TwoParagraphs),
    Commit(<<"p","e","r","f",":"," ","h">>, NoText),
    Commit(<<"r","e","f","a","c","t","o","r","(","a","p","i",")",":"," ","r">>, NoText),
    Commit(<<"r","e","v","e","r","t",":"," ","f","e","a","t",":"," ","g">>, BreakingLine) }

\* the names a developer gives a tag
TagNames ==
  { <<"v","1",".","2",".","3">>, <<"1",".","2",".","3">> }

\* the states of package.json
ManifestPool ==
  { [kind |-> "missing"], [kind |-> "malformed"], [kind |-> "null"],
    [kind |-> "object", version |-> Undefined],
    [kind |-> "object", version |-> JsStr(<<"1",".","4",".","2">>)] }

\* no call of computeVersion has returned since the repository last changed
NoResult == [type |-> "none"]

\* bumpVersion is not called
NoBumpCall ==
  /\ versionIn = <<>>
  /\ bumpIn = "patch"
  /\ versionOut = NoResult

\* the files the tools write
ChangelogFile == "CHANGELOG.md"
ChangelogPreviewFile == "CHANGELOG.preview.md"
NotesFile == "RELEASE_NOTES.md"
NotesPreviewFile == "RELEASE_NOTES.preview.md"
FileNames == {ChangelogFile, ChangelogPreviewFile, NotesFile, NotesPreviewFile}

\* fs.existsSync(file) is false
Absent == [exists |-> FALSE]
\* the file holds the text
Holding(text) == [exists |-> TRUE, content |-> text]

\* no tool has run yet
NoArtifacts ==
  /\ files = [f \in FileNames |-> Absent]
  /\ buckets = <<>>
  /\ section = <<>>
  /\ ghCalls = 0
  /\ pushed = {}

\* PREVIEW_MODE=true in the environment of a process, kept with its arguments
PreviewMode == "PREVIEW_MODE=true"

\* no process of the command line has run since the repository last changed
NoProcess ==
  /\ argv = {}
  /\ stdout = <<>>
  /\ stderr = <<>>
  /\ exitCode = Undefined

(***************************************************************************)
(* Spec: a developer commits and tags; computeVersion is called             *)
(***************************************************************************)
Init ==
  /\ hasRepo \in BOOLEAN
  /\ commits = <<>>
  /\ tags = {}
  /\ manifest \in ManifestPool
  /\ result = NoResult
  /\ subject = <<>>
  /\ body = <<>>
  /\ bumpType = "idle"
  /\ NoBumpCall
  /\ NoProcess
  /\ NoArtifacts

\* git commit
GitCommit ==
  /\ hasRepo
  /\ Len(commits) < MaxCommits
  /\ \E c \in CommitPool : commits' = Append(commits, c)
  /\ result' = NoResult
  /\ argv' = {}
  /\ stdout' = <<>>
  /\ stderr' = <<>>
  /\ exitCode' = Undefined
  /\ UNCHANGED <<hasRepo, tags, manifest, detectVars, bumpVars, worldVars>>

\* git tag <name> on HEAD, which holds no tag yet: a lightweight tag
GitTag ==
  /\ hasRepo
  /\ commits /= <<>>
  /\ Cardinality(tags) < MaxTags
  /\ \A t \in tags : t.at /= Len(commits)
  /\ \E n \in TagNames :
       /\ \A t \in tags : t.name /= n
       /\ tags' = tags \cup {[name |-> n, at |-> Len(commits), annotated |-> FALSE,
                               made |-> Cardinality(tags) + 1]}
  /\ result' = NoResult
  /\ argv' = {}
  /\ stdout' = <<>>
  /\ stderr' = <<>>
  /\ exitCode' = Undefined
  /\ UNCHANGED <<hasRepo, commits, manifest, detectVars, bumpVars, worldVars>>

\* a call of computeVersion({ cwd })
ComputeVersion ==
  /\ result' = computeVersion
  /\ UNCHANGED <<repoVars, detectVars, bumpVars, procVars, worldVars>>

Next == GitCommit \/ GitTag \/ ComputeVersion

Spec == Init /\ [][Next]_vars

(***************************************************************************)
(* SpecDetect: detectBumpType applied to one commit.  A subject is a        *)
(* marker, a type word, a scope, a '!' or none, and the rest.               *)
(***************************************************************************)
SubjectMarkers ==
  { <<>>,
    <<":","s","p","a","r","k","l","e","s",":"," ">>,
    <<Rocket," ">>,
    <<":","a",":"," ",Rocket," ">>,
    <<Rocket," ",":","a",":"," ">>,
    <<":","a",":"," ",":","b",":"," ">>,
    <<Sparkles," ">>,
    <<" ">> }

SubjectTypes ==
  { <<"f","e","a","t">>,
    <<"f","i","x">>,
    <<"F","I","X">>,
    <<"c","h","o","r","e">>,
    <<"F","e","a","t">>,
    <<"p","e","r","f">>,
    <<"r","e","f","a","c","t","o","r">>,
    <<"d","o","c","s">>,
    <<"s","t","y","l","e">>,
    <<"t","e","s","t">>,
    <<"b","u","i","l","d">>,
    <<"c","i">>,
    <<"c","l","e","a","n","u","p">>,
    <<"r","e","m","o","v","e">>,
    <<"f","o","o">>,
    <<"f","i","x","e","s">>,
    <<>>,
    <<"r","e","v","e","r","t">>,
    <<"R","e","v","e","r","t">>,
    <<"r","e","v","e","r","t","e","d">> }

SubjectScopes ==
  { <<>>,
    <<"(","a","p","i",")">>,
    <<"(",")">>,
    <<"(","a",")","!",":"," ","b","(","c",")">> }

SubjectBangs == { <<>>, <<"!">> }

SubjectRests ==
  { <<":"," ","x">>,
    <<" ","x">>,
    <<>> }

Subjects ==
  { m \o t \o s \o b \o r :
      m \in SubjectMarkers, t \in SubjectTypes, s \in SubjectScopes,
      b \in SubjectBangs, r \in SubjectRests }

Bodies ==
  { <<>>,
    <<"B","R","E","A","K","I","N","G"," ","C","H","A","N","G","E",":"," ","y">>,
    <<"x",LF,"b","r","e","a","k","i","n","g"," ","c","h","a","n","g","e">>,
    <<"B","R","E","A","K","I","N","G","-","C","H","A","N","G","E",":"," ","y">> }

InitDetect ==
  /\ subject \in Subjects
  /\ body \in Bodies
  /\ bumpType = "idle"
  /\ hasRepo = FALSE
  /\ commits = <<>>
  /\ tags = {}
  /\ manifest = [kind |-> "missing"]
  /\ result = NoResult
  /\ NoBumpCall
  /\ NoProcess
  /\ NoArtifacts

\* a call of detectBumpType({ subject, body })
DetectBumpType ==
  /\ bumpType = "idle"
  /\ bumpType' = detectBumpType([subject |-> subject, body |-> body])
  /\ UNCHANGED <<repoVars, result, subject, body, bumpVars, procVars, worldVars>>

NextDetect == DetectBumpType

SpecDetect == InitDetect /\ [][NextDetect]_vars

(***************************************************************************)
(* What the claims speak of: the repository as the developer sees it        *)
(***************************************************************************)
\* computeVersion returned a ComputeResult for the repository as it is now
Returned == "hasRelease" \in DOMAIN result

\* the index of the commit the latest reachable tag is on, 0 when no tag exists
LatestTagAt ==
  IF tags = {} THEN 0 ELSE (CHOOSE t \in tags : \A o \in tags : o.at <= t.at).at

LatestTagName == (CHOOSE t \in tags : \A o \in tags : o.at <= t.at).name

\* the indices of the commits of the range tag..HEAD, or of the whole history
RangeIndices == (LatestTagAt + 1)..Len(commits)

\* the signal of a commit of the repository, subject and whole body
SignalOf(i) == detectBumpType(commits[i])

BumpRank(b) == CASE b = "major" -> 3 [] b = "minor" -> 2 [] b = "patch" -> 1 [] OTHER -> 0

\* the header of a subject, the text before its first colon, ends with '!'
HeaderHasBang(s) ==
  \E i \in 2..Len(s) : s[i] = ":" /\ s[i - 1] = "!" /\ \A k \in 1..(i - 1) : s[k] /= ":"

\* a commit signals a breaking change
SignalsBreaking(c) == HeaderHasBang(c.subject) \/ BreakingRe(c.body)

(***************************************************************************)
(* C1: computeVersion returns hasRelease = true if and only if at least    *)
(* one commit of the range tag..HEAD (the whole history without a tag) is  *)
(* classified major, minor or patch.                                        *)
(***************************************************************************)
C1_HasReleaseIffBump ==
  Returned => (result.hasRelease <=> \E i \in RangeIndices : SignalOf(i) /= "none")

(***************************************************************************)
(* C2: in the release case bump is the highest signal of the commits of    *)
(* the range under none < patch < minor < major, and nextVersion is        *)
(* bumpVersion(baseVersion, bump).                                          *)
(***************************************************************************)
C2_BumpIsMaximum ==
  (Returned /\ result.hasRelease) =>
    /\ \E i \in RangeIndices : SignalOf(i) = result.bump
    /\ \A i \in RangeIndices : BumpRank(SignalOf(i)) <= BumpRank(result.bump)
    /\ result.nextVersion = bumpVersion(result.baseVersion, result.bump)

(***************************************************************************)
(* C3: commitsAnalyzed equals the number of commits of the range, whatever *)
(* the outcome and whatever the subjects and bodies hold.                   *)
(***************************************************************************)
C3_CommitsAnalyzedIsCount ==
  Returned => result.commitsAnalyzed = Cardinality(RangeIndices)

(***************************************************************************)
(* C4: if a commit of the range signals a breaking change, by '!' on its   *)
(* header or by BREAKING CHANGE on any line of its body, computeVersion    *)
(* returns hasRelease = true with bump = major.                             *)
(***************************************************************************)
C4_BreakingForcesMajor ==
  (result /= NoResult /\ \E i \in RangeIndices : SignalsBreaking(commits[i])) =>
    (Returned /\ result.hasRelease /\ result.bump = "major")

(***************************************************************************)
(* C5: with a tag reachable from HEAD the commits analyzed are exactly the *)
(* commits after that tag up to HEAD, for every tag name; without a tag    *)
(* they are the whole history.                                              *)
(***************************************************************************)
C5_AnalyzesTagToHead ==
  result /= NoResult =>
    \A i \in 1..Len(commits) :
      (\E k \in 1..Len(AnalyzedCommits) : AnalyzedCommits[k].hash = HashOf(i))
        <=> i \in RangeIndices

(***************************************************************************)
(* C6: baseVersion is a populated version string: the latest reachable tag *)
(* without a leading 'v', else the manifest's version, else "0.0.0" when   *)
(* the manifest is missing, unparsable or holds no version.                 *)
(***************************************************************************)
ExpectedBaseVersion ==
  IF hasRepo /\ tags /= {} THEN JsStr(StripLeadingV(LatestTagName))
  ELSE IF manifest.kind = "object" /\ manifest.version.type = "string" THEN manifest.version
  ELSE JsStr(ZeroVersion)

C6_BaseVersionPopulated ==
  Returned =>
    /\ result.baseVersion.type = "string"
    /\ result.baseVersion.chars /= <<>>
    /\ result.baseVersion = ExpectedBaseVersion

(***************************************************************************)
(* C7: computeVersion never throws: every call returns a ComputeResult.    *)
(***************************************************************************)
C7_NeverThrows == result /= NoResult => Returned

(***************************************************************************)
(* C8: without a release, reason is no-commits with commitsAnalyzed = 0    *)
(* exactly when the range holds no commit, and no-bump-detected with the   *)
(* true count exactly when it holds commits that all classify none; no     *)
(* nextVersion and no bump field is present.                                *)
(***************************************************************************)
C8_NoReleaseReasons ==
  (Returned /\ ~result.hasRelease) =>
    /\ (result.reason = "no-commits" /\ result.commitsAnalyzed = 0)
         <=> RangeIndices = {}
    /\ (result.reason = "no-bump-detected"
          /\ result.commitsAnalyzed = Cardinality(RangeIndices))
         <=> (RangeIndices /= {} /\ \A i \in RangeIndices : SignalOf(i) = "none")
    /\ "nextVersion" \notin DOMAIN result
    /\ "bump" \notin DOMAIN result

(***************************************************************************)
(* What the claims about detectBumpType speak of                            *)
(***************************************************************************)
\* the commit detectBumpType was called with
Classified == bumpType /= "idle"

CleanSubject == normalizeSubject(subject)

\* s starts with the word revert, in any letter case, at a word boundary
StartsWithRevertWord(s) ==
  /\ Len(s) >= 6
  /\ LowerSeq(SubSeq(s, 1, 6)) = RevertWord
  /\ (Len(s) = 6 \/ ~IsWord(s[7]))

Letters == Range(UpperChars) \cup Range(LowerChars)

\* the type word of a subject: its leading run of letters, in lower case
TypeWord(s) ==
  LET n == CHOOSE k \in 0..Len(s) :
             /\ \A i \in 1..k : s[i] \in Letters
             /\ (k < Len(s) => s[k + 1] \notin Letters)
  IN LowerSeq(SubSeq(s, 1, n))

TypeBump(t) ==
  CASE t = <<"f","e","a","t">> -> "minor"
    [] t = <<"f","i","x">> -> "patch"
    [] t \in Range(CommitTypes) \ {<<"f","e","a","t">>, <<"f","i","x">>} -> "none"
    [] OTHER -> "unknown"

NeitherBreakingNorRevert ==
  /\ ~StartsWithRevertWord(CleanSubject)
  /\ ~BreakingRe(body)
  /\ ~(CommitReMatch(CleanSubject).matched /\ CommitReMatch(CleanSubject).bang)

IsPerfOrRefactor(c) ==
  LET match == CommitReMatch(normalizeSubject(c.subject))
  IN /\ match.matched
     /\ match.type \in {<<"p","e","r","f">>, <<"r","e","f","a","c","t","o","r">>}
     /\ ~match.bang
     /\ ~BreakingRe(c.body)

C12_PerfRefactorPatch ==
  (/\ Returned
   /\ \E i \in RangeIndices : IsPerfOrRefactor(commits[i])
   /\ \A i \in RangeIndices : IsPerfOrRefactor(commits[i]) \/ SignalOf(i) = "none")
    => (result.hasRelease /\ result.bump = "patch")

(***************************************************************************)
(* C13: for every subject s that does not itself start with a marker and   *)
(* every body, detectBumpType classifies a shortcode followed by           *)
(* whitespace and s, and a run of Unicode emoji followed by whitespace and *)
(* s, exactly as it classifies s.                                           *)
(***************************************************************************)
\* s starts with :shortcode: or with an emoji
StartsWithMarker(s) ==
  /\ s /= <<>>
  /\ \/ s[1] \in {Rocket, Sparkles}
     \/ /\ s[1] = ":"
        /\ \E i \in 3..Len(s) : s[i] = ":" /\ \A k \in 2..(i - 1) : ~IsSpace(s[k])

\* ":sparkles: ", ":a:" and a tab, and runs of emoji followed by blanks
LeadingMarkers ==
  { <<":","s","p","a","r","k","l","e","s",":"," ">>,
    <<":","a",":",TAB>>,
    <<Rocket," ">>,
    <<Rocket,Rocket," "," ">>,
    <<Sparkles," ">>,
    <<Rocket,Sparkles," ">> }

C13_MarkersAreTransparent ==
  (Classified /\ ~StartsWithMarker(subject)) =>
    \A m \in LeadingMarkers :
      detectBumpType([subject |-> m \o subject, body |-> body]) = bumpType

(***************************************************************************)
(* C14: the bump resolution of computeVersion does not depend on the       *)
(* order of the commits: for the commits analyzed and every permutation of *)
(* them the resolved bump is the one returned, and so are hasRelease and   *)
(* nextVersion.                                                             *)
(***************************************************************************)
\* the orders the elements of the index set S can be listed in
RECURSIVE IndexOrders(_)
IndexOrders(S) ==
  IF S = {} THEN {<<>>}
  ELSE UNION {{<<x>> \o o : o \in IndexOrders(S \ {x})} : x \in S}

Reordered(cs, o) == [k \in 1..Len(o) |-> cs[o[k]]]

C14_OrderIndependent ==
  Returned =>
    \A o \in IndexOrders(1..Len(AnalyzedCommits)) :
      LET bump == BumpLoop(Reordered(AnalyzedCommits, o), 1, NoBump)
      IN /\ result.hasRelease <=> bump /= NoBump
         /\ result.hasRelease =>
              /\ result.bump = bump
              /\ result.nextVersion = bumpVersion(result.baseVersion, bump)

\* a minor commit analyzed before a patch commit: minor is returned, as it is
\* for the opposite order
C14_Witness ==
  /\ Returned
  /\ result.hasRelease
  /\ result.bump = "minor"
  /\ Len(AnalyzedCommits) = 2
  /\ detectBumpType(AnalyzedCommits[1]) = "minor"
  /\ detectBumpType(AnalyzedCommits[2]) = "patch"

(***************************************************************************)
(* SpecBump: bumpVersion applied to one base version and one bump          *)
(***************************************************************************)
\* the most components a base version is drawn with
MaxParts == 3

\* what stands between the dots of a base version
VersionComponents ==
  { <<"0">>, <<"1">>, <<"9">>, <<"1","2">>, <<"x">>, <<>>, <<"-","2">>, <<"3","-","r","c">> }

RECURSIVE JoinDots(_)
JoinDots(parts) ==
  IF Len(parts) = 1 THEN parts[1]
  ELSE parts[1] \o <<".">> \o JoinDots(Tail(parts))

BaseVersions ==
  UNION { { JoinDots(parts) : parts \in [1..n -> VersionComponents] } : n \in 1..MaxParts }

BumpKinds == {"major", "minor", "patch"}

InitBump ==
  /\ versionIn \in BaseVersions
  /\ bumpIn \in BumpKinds
  /\ versionOut = NoResult
  /\ hasRepo = FALSE
  /\ commits = <<>>
  /\ tags = {}
  /\ manifest = [kind |-> "missing"]
  /\ result = NoResult
  /\ subject = <<>>
  /\ body = <<>>
  /\ bumpType = "idle"
  /\ NoProcess
  /\ NoArtifacts

\* a call of bumpVersion(base, bump)
BumpVersion ==
  /\ versionOut = NoResult
  /\ versionOut' = bumpVersion(JsStr(versionIn), bumpIn)
  /\ UNCHANGED <<repoVars, result, detectVars, versionIn, bumpIn, procVars, worldVars>>

NextBump == BumpVersion

SpecBump == InitBump /\ [][NextBump]_vars

(***************************************************************************)
(* What the claims about bumpVersion speak of                               *)
(***************************************************************************)
Bumped == versionOut /= NoResult

\* a component that is a run of digits
IsUnsigned(p) == p /= <<>> /\ \A i \in 1..Len(p) : p[i] \in Range(DigitChars)

\* the lenient parse: a numeric component is its value, any other is 0
ComponentValue(p) == IF IsUnsigned(p) THEN DigitsValue(p, 1, 0) ELSE 0

\* the components of a version string, an absent one empty
ComponentOf(s, i) ==
  LET parts == Split(s, ".")
  IN IF i <= Len(parts) THEN parts[i] ELSE <<>>

Triple(M, m, p) ==
  NatToString(M) \o <<".">> \o NatToString(m) \o <<".">> \o NatToString(p)

ExpectedBump(s, kind) ==
  LET M == ComponentValue(ComponentOf(s, 1))
      m == ComponentValue(ComponentOf(s, 2))
      p == ComponentValue(ComponentOf(s, 3))
  IN CASE kind = "major" -> Triple(M + 1, 0, 0)
       [] kind = "minor" -> Triple(M, m + 1, 0)
       [] kind = "patch" -> Triple(M, m, p + 1)

(***************************************************************************)
(* C15: for every base version string, parsed as (M, m, p), bumpVersion    *)
(* returns (M+1).0.0 for major, M.(m+1).0 for minor and M.m.(p+1) for      *)
(* patch.                                                                   *)
(***************************************************************************)
C15_BumpArithmetic ==
  Bumped => versionOut = JsStr(ExpectedBump(versionIn, bumpIn))

(***************************************************************************)
(* C16: parsing never fails and yields three unsigned integers for every   *)
(* input string, a non-numeric or absent component counting as 0, so the   *)
(* version bumpVersion returns is three unsigned integers joined by dots:  *)
(* no component of it is ever negative.                                     *)
(***************************************************************************)
C16_ThreeUnsignedComponents ==
  Bumped =>
    /\ versionOut.type = "string"
    /\ Len(Split(versionOut.chars, ".")) = 3
    /\ \A i \in 1..3 : IsUnsigned(Split(versionOut.chars, ".")[i])

(***************************************************************************)
(* bin/compute-version.js: the command line                                 *)
(***************************************************************************)
\* the flags a caller passes
Flags == {"--ci", "--json", "--preview"}

parseFlags(a) ==
  [ci |-> "--ci" \in a, json |-> "--json" \in a, preview |-> "--preview" \in a]

\* the text of a reason or of a bump
TextOf(w) ==
  CASE w = "no-commits" -> <<"n","o","-","c","o","m","m","i","t","s">>
    [] w = "no-bump-detected" -> <<"n","o","-","b","u","m","p","-","d","e","t","e","c","t","e","d">>
    [] w = "major" -> <<"m","a","j","o","r">>
    [] w = "minor" -> <<"m","i","n","o","r">>
    [] w = "patch" -> <<"p","a","t","c","h">>

\* JSON.stringify of a string: quoted, with '"' and '\' escaped
RECURSIVE JsonEscape(_)
JsonEscape(t) ==
  IF t = <<>> THEN <<>>
  ELSE (IF Head(t) \in {"\"", "\\"} THEN <<"\\", Head(t)>> ELSE <<Head(t)>>)
       \o JsonEscape(Tail(t))

JsonQuote(t) == <<"\"">> \o JsonEscape(t) \o <<"\"">>

\* JSON.stringify of a value of a ComputeResult: a boolean, a number, one of
\* the words of reason and bump, or a string
JsonValue(kind, v) ==
  CASE kind = "boolean" -> (IF v THEN <<"t","r","u","e">> ELSE <<"f","a","l","s","e">>)
    [] kind = "number" -> NatToString(v)
    [] kind = "word" -> JsonQuote(TextOf(v))
    [] kind = "string" -> JsonQuote(v.chars)

\* the members of a ComputeResult in the order its keys were created; a
\* member whose value is undefined is left out
JsonMembers(r) ==
  LET version(v) == IF v = Undefined THEN "undefined" ELSE "string"
      all == IF r.hasRelease
               THEN << <<<<"h","a","s","R","e","l","e","a","s","e">>, "boolean", r.hasRelease>>,
                       <<<<"b","a","s","e","V","e","r","s","i","o","n">>, version(r.baseVersion), r.baseVersion>>,
                       <<<<"n","e","x","t","V","e","r","s","i","o","n">>, "string", r.nextVersion>>,
                       <<<<"b","u","m","p">>, "word", r.bump>>,
                       <<<<"c","o","m","m","i","t","s","A","n","a","l","y","z","e","d">>, "number", r.commitsAnalyzed>> >>
               ELSE << <<<<"h","a","s","R","e","l","e","a","s","e">>, "boolean", r.hasRelease>>,
                       <<<<"r","e","a","s","o","n">>, "word", r.reason>>,
                       <<<<"b","a","s","e","V","e","r","s","i","o","n">>, version(r.baseVersion), r.baseVersion>>,
                       <<<<"c","o","m","m","i","t","s","A","n","a","l","y","z","e","d">>, "number", r.commitsAnalyzed>> >>
  IN SelectSeq(all, LAMBDA m : m[2] /= "undefined")

RECURSIVE JsonLines(_)
JsonLines(ms) ==
  IF ms = <<>> THEN <<>>
  ELSE <<LF, " ", " ">> \o JsonQuote(ms[1][1]) \o <<":", " ">> \o JsonValue(ms[1][2], ms[1][3])
       \o (IF Len(ms) > 1 THEN <<",">> ELSE <<>>) \o JsonLines(Tail(ms))

\* JSON.stringify(result, null, 2)
JsonStringify(r) == <<"{">> \o JsonLines(JsonMembers(r)) \o <<LF, "}">>

\* `No release generated (${result.reason}). Base version: ${result.baseVersion}`
NoReleaseMessage(r) ==
  <<"N","o"," ","r","e","l","e","a","s","e"," ","g","e","n","e","r","a","t","e","d"," ","(">> \o TextOf(r.reason) \o <<")","."," ","B","a","s","e"," ","v","e","r","s","i","o","n",":"," ">>
  \o (IF r.baseVersion = Undefined THEN <<"u","n","d","e","f","i","n","e","d">> ELSE r.baseVersion.chars)

\* what node writes for the TypeError nothing catches
UncaughtTypeError == <<"T","y","p","e","E","r","r","o","r">>

\* main with --json exiting 0 whatever the result
main_JsonExitsZero(a, result_) ==
  LET flags == parseFlags(a)
      r == result_
      line(t) == t \o <<LF>>
  IN IF r = TypeError
       THEN [stdout |-> <<>>, stderr |-> line(UncaughtTypeError), exitCode |-> Num(1)]
     ELSE [stdout |-> IF flags.json THEN line(JsonStringify(r))
                      ELSE IF r.hasRelease THEN line(r.nextVersion.chars)
                      ELSE <<>>,
           stderr |-> IF ~flags.json /\ ~r.hasRelease THEN line(NoReleaseMessage(r))
                      ELSE <<>>,
           exitCode |-> IF r.hasRelease \/ flags.json THEN Num(0)
                        ELSE IF r.reason = "no-bump-detected" THEN Num(10)
                        ELSE IF r.reason = "no-commits" THEN Num(2)
                        ELSE Num(1)]

\* main writing the no-release message with console.log
main_MessageOnStdout(a, result_) ==
  LET flags == parseFlags(a)
      r == result_
      line(t) == t \o <<LF>>
  IN IF r = TypeError
       THEN [stdout |-> <<>>, stderr |-> line(UncaughtTypeError), exitCode |-> Num(1)]
     ELSE [stdout |-> IF flags.json THEN line(JsonStringify(r))
                      ELSE IF r.hasRelease THEN line(r.nextVersion.chars)
                      ELSE line(NoReleaseMessage(r)),
           stderr |-> <<>>,
           exitCode |-> IF r.hasRelease THEN Num(0)
                        ELSE IF r.reason = "no-bump-detected" THEN Num(10)
                        ELSE IF r.reason = "no-commits" THEN Num(2)
                        ELSE Num(1)]

\* main(): what the process wrote and the code it exited with, for the
\* arguments a and for what its call of computeVersion() came to, a result or
\* the exception; console.log and console.error end what they write with a
\* line feed, and an exception nothing catches ends the process with code 1
main(a, result_) ==
  LET flags == parseFlags(a)
      r == result_
      line(t) == t \o <<LF>>
  IN IF r = TypeError
       THEN [stdout |-> <<>>, stderr |-> line(UncaughtTypeError), exitCode |-> Num(1)]
     ELSE [stdout |-> IF flags.json THEN line(JsonStringify(r))
                      ELSE IF r.hasRelease THEN line(r.nextVersion.chars)
                      ELSE <<>>,
           stderr |-> IF ~flags.json /\ ~r.hasRelease THEN line(NoReleaseMessage(r))
                      ELSE <<>>,
           exitCode |-> IF r.hasRelease THEN Num(0)
                        ELSE IF r.reason = "no-bump-detected" THEN Num(10)
                        ELSE IF r.reason = "no-commits" THEN Num(2)
                        ELSE Num(1)]

(***************************************************************************)
(* SpecCli: a developer commits and tags; the command line is run           *)
(***************************************************************************)
\* node compute-version.js <flags>; result is what computeVersion answered it
Main ==
  /\ exitCode = Undefined
  /\ result' = computeVersion
  /\ \E a \in SUBSET Flags :
       LET exit == main(a, result')
       IN /\ argv' = a
          /\ stdout' = exit.stdout
          /\ stderr' = exit.stderr
          /\ exitCode' = exit.exitCode
  /\ UNCHANGED <<repoVars, detectVars, bumpVars, worldVars>>

\* the most commits of a history the command line is run on
MaxCliCommits == 1

NextCli == (GitCommit /\ Len(commits) < MaxCliCommits) \/ GitTag \/ Main

SpecCli == Init /\ [][NextCli]_vars

(***************************************************************************)
(* What the claims about the command line speak of                          *)
(***************************************************************************)
\* the process of the command line has exited
Exited == exitCode /= Undefined

NoRelease(reason) == Returned /\ ~result.hasRelease /\ result.reason = reason

(***************************************************************************)
(* C17: the exit code of the command line is a function of the             *)
(* ComputeResult alone: 0 exactly when hasRelease is true, 10 exactly when *)
(* reason is no-bump-detected, 2 exactly when reason is no-commits, and 1  *)
(* only on an unexpected error; --json, --ci and --preview never change    *)
(* it.                                                                      *)
(***************************************************************************)
C17_ExitCodeFollowsResult ==
  Exited =>
    /\ exitCode \in {Num(0), Num(10), Num(2), Num(1)}
    /\ exitCode = Num(0) <=> (Returned /\ result.hasRelease)
    /\ exitCode = Num(10) <=> NoRelease("no-bump-detected")
    /\ exitCode = Num(2) <=> NoRelease("no-commits")
    /\ exitCode = Num(1) => ~Returned

\* all three flags given, commits that carry no bump: exit code 10
C17_Witness ==
  /\ exitCode = Num(10)
  /\ argv = Flags
  /\ NoRelease("no-bump-detected")
  /\ commits /= <<>>

(***************************************************************************)
(* C18: the command line writes to standard output exactly the nextVersion *)
(* in non-JSON release mode, exactly the full ComputeResult as JSON in     *)
(* --json mode (release or not), and nothing in non-JSON no-release mode,  *)
(* where the reason and the base version go to standard error only; --ci   *)
(* and --preview change none of this.                                       *)
(***************************************************************************)
\* the lines of a text that ends with a line feed
LinesOf(t) ==
  IF t = <<>> THEN <<>>
  ELSE LET parts == Split(t, LF) IN SubSeq(parts, 1, Len(parts) - 1)

\* t occurs in s
OccursIn(s, t) == \E i \in 1..(Len(s) - Len(t) + 1) : SubSeq(s, i, i + Len(t) - 1) = t

\* what a reader of the JSON text finds under key: the text of the value of the
\* one member line that starts with "key": , or <<>> when there is none
JsonRead(text, key) ==
  LET start == <<" ", " ", "\"">> \o key \o <<"\"", ":", " ">>
      lines == LinesOf(text)
      hits == {i \in 1..Len(lines) :
                 Len(lines[i]) >= Len(start) /\ SubSeq(lines[i], 1, Len(start)) = start}
      value(l) == LET v == Drop(l, Len(start) + 1)
                  IN IF v /= <<>> /\ v[Len(v)] = "," THEN SubSeq(v, 1, Len(v) - 1) ELSE v
  IN IF Cardinality(hits) = 1 THEN value(lines[CHOOSE i \in hits : TRUE]) ELSE <<>>

Quoted(t) == <<"\"">> \o t \o <<"\"">>

\* the text is a JSON object that holds the ComputeResult, field by field
IsJsonOfResult(text) ==
  LET lines == LinesOf(text)
      present == Cardinality(DOMAIN result)
                   - (IF result.baseVersion = Undefined THEN 1 ELSE 0)
  IN /\ Len(lines) = present + 2
     /\ lines[1] = <<"{">>
     /\ lines[Len(lines)] = <<"}">>
     /\ JsonRead(text, <<"h","a","s","R","e","l","e","a","s","e">>) = (IF result.hasRelease THEN <<"t","r","u","e">> ELSE <<"f","a","l","s","e">>)
     /\ JsonRead(text, <<"b","a","s","e","V","e","r","s","i","o","n">>) =
          (IF result.baseVersion = Undefined THEN <<>> ELSE Quoted(result.baseVersion.chars))
     /\ JsonRead(text, <<"c","o","m","m","i","t","s","A","n","a","l","y","z","e","d">>) = NatToString(result.commitsAnalyzed)
     /\ result.hasRelease =>
          /\ JsonRead(text, <<"n","e","x","t","V","e","r","s","i","o","n">>) = Quoted(result.nextVersion.chars)
          /\ JsonRead(text, <<"b","u","m","p">>) = Quoted(TextOf(result.bump))
     /\ ~result.hasRelease => JsonRead(text, <<"r","e","a","s","o","n">>) = Quoted(TextOf(result.reason))

C18_StandardOutput ==
  (Exited /\ Returned) =>
    /\ ("--json" \notin argv /\ result.hasRelease) =>
         stdout = result.nextVersion.chars \o <<LF>>
    /\ "--json" \in argv => IsJsonOfResult(stdout)
    /\ ("--json" \notin argv /\ ~result.hasRelease) =>
         /\ stdout = <<>>
         /\ OccursIn(stderr, TextOf(result.reason))
         /\ result.baseVersion /= Undefined => OccursIn(stderr, result.baseVersion.chars)
    /\ ("--json" \in argv \/ result.hasRelease) => stderr = <<>>

\* --json with --ci and --preview, no release: the result is on standard output
C18_Witness ==
  /\ Exited
  /\ argv = Flags
  /\ NoRelease("no-commits")
  /\ tags /= {}
  /\ IsJsonOfResult(stdout)
  /\ stderr = <<>>

(***************************************************************************)
(* bin/compute-version.js: the engine with the isPreview option.  A value  *)
(* it computes comes with the lines it wrote to the console on the way.    *)
(***************************************************************************)
WarningSign == "<U+26A0>"
InfoSign == "<U+2139>"

getPackageVersion ==
  IF manifest.kind = "object" THEN manifest.version ELSE JsStr(ZeroVersion)

\* `${v}` and console.log's rendering of a string or of undefined
TextOfValue(v) == IF v = Undefined THEN <<"u","n","d","e","f","i","n","e","d">> ELSE v.chars

getLastTag_bin(isPreview) ==
  LET r == run(GitDescribe)
      pkgVersion == getPackageVersion
  IN IF r.ok
       THEN [value |-> JsStr(StripLeadingV(r.out)), console |-> <<>>]
       ELSE [value |-> pkgVersion,
             console |-> IF isPreview
                           THEN <<WarningSign," ","N","o"," ","p","r","e","v","i","o","u","s"," ","t","a","g"," ","f","o","u","n","d","."," ","U","s","i","n","g"," ","p","a","c","k","a","g","e",".","j","s","o","n"," ","v","e","r","s","i","o","n"," ","(">>
                                \o TextOfValue(pkgVersion) \o <<")"," ","a","s"," ","b","a","s","e",".",LF>>
                           ELSE <<>>]

getCommitsSince(version) ==
  LET hasTag == run(GitDescribe).ok
      range == IF hasTag THEN TextOfValue(version) \o <<".", ".">> \o HeadRef ELSE HeadRef
      r == run(GitLog(range))
  IN IF r.ok THEN FilterBoolean(Split(r.out, LF)) ELSE <<>>

parseCommitLine(line) ==
  LET f == Split(line, US)
  IN [hash |-> f[1],
      subject |-> IF Len(f) >= 2 THEN f[2] ELSE <<>>,
      body |-> IF Len(f) >= 3 THEN f[3] ELSE <<>>]

\* the types of the pattern of detectType, raw among them
DetectTypes ==
  << <<"f","e","a","t">>, <<"f","i","x">>, <<"r","e","f","a","c","t","o","r">>,
     <<"d","o","c","s">>, <<"c","h","o","r","e">>, <<"s","t","y","l","e">>,
     <<"t","e","s","t">>, <<"b","u","i","l","d">>, <<"p","e","r","f">>,
     <<"c","i">>, <<"r","a","w">>, <<"c","l","e","a","n","u","p">>,
     <<"r","e","m","o","v","e">> >>

\* the pattern of detectType from index p of s on, after group 1
DetectTypeFrom(s, p) ==
  LET t == Drop(s, p)
      hits == {i \in 1..Len(DetectTypes) :
                 /\ StartsWithI(t, DetectTypes[i])
                 /\ MatchTail(t, Len(DetectTypes[i]) + 1, DetectTypes[i]).matched}
  IN IF hits = {} THEN NoMatch
     ELSE LET i == CHOOSE h \in hits : \A o \in hits : h <= o
          IN MatchTail(t, Len(DetectTypes[i]) + 1, DetectTypes[i])

\* the first of two attempts that matched
FirstMatch(m, n) == IF m.matched THEN m ELSE n

\* subject.match(re): group 1, a shortcode and one blank, is tried first; the
\* blank after it is the first of the subject, so it can end in one place only
DetectTypeRe(s) ==
  LET ends == {k \in 3..(Len(s) - 1) :
                 /\ s[1] = ":"
                 /\ \A j \in 2..(k - 1) : ~IsSpace(s[j])
                 /\ s[k] = ":"
                 /\ s[k + 1] = " "}
  IN FirstMatch(IF ends /= {} THEN DetectTypeFrom(s, (CHOOSE k \in ends : TRUE) + 2)
                ELSE NoMatch,
                DetectTypeFrom(s, 1))

\* the returns of detectType, m being the match and bodyBreaks the test of the body
TypeGiven(m, bodyBreaks) ==
  IF bodyBreaks \/ (m.matched /\ m.bang) THEN "major"
  ELSE IF m.matched /\ m.type = <<"f","e","a","t">> THEN "minor"
  ELSE IF m.matched /\ m.type = <<"f","i","x">> THEN "patch"
  ELSE "none"

detectType(subject_, body_) == TypeGiven(DetectTypeRe(subject_), BreakingRe(body_))

bumpVersion_bin(type, version) == bumpVersion(version, type)

\* the for loop of computeVersion over the parsed commits
RECURSIVE BumpLoop_bin(_, _, _)
BumpLoop_bin(cs, i, bump) ==
  IF i > Len(cs) THEN bump
  ELSE LET t == detectType(cs[i].subject, cs[i].body)
       IN IF t = "major" THEN "major"
          ELSE IF t = "minor" /\ bump /= "major" THEN BumpLoop_bin(cs, i + 1, "minor")
          ELSE IF t = "patch" /\ bump = NoBump THEN BumpLoop_bin(cs, i + 1, "patch")
          ELSE BumpLoop_bin(cs, i + 1, bump)

\* what console.log writes: its text and a line feed
LogLine(t) == t \o <<LF>>

\* the three lines both summaries start with
SummaryHead(baseVersion, parsed) ==
  LogLine(<<"M","o","d","e",":"," ","P","R","E","V","I","E","W">>)
  \o LogLine(<<"B","a","s","e"," ","v","e","r","s","i","o","n",":"," ">> \o TextOfValue(baseVersion))
  \o LogLine(<<"C","o","m","m","i","t","s"," ","a","n","a","l","y","z","e","d",":"," ">> \o NatToString(Len(parsed)))

\* computeVersion from the test of commits.length on, given what getLastTag
\* returned and wrote, the parsed commits, the bump of the loop and what
\* bumpVersion comes to for it
Outcome(isPreview, last, parsed, bump, nextVersion) ==
  IF Len(parsed) = 0
    THEN [value |-> Null,
          console |-> last.console
                      \o (IF isPreview THEN LogLine(<<InfoSign," ","N","o"," ","c","o","m","m","i","t","s"," ","t","o"," ","a","n","a","l","y","z","e",".">>) ELSE <<>>)]
  ELSE IF bump = NoBump
    THEN [value |-> Null,
          console |-> last.console
                      \o (IF isPreview
                            THEN SummaryHead(last.value, parsed) \o LogLine(<<"N","o"," ","v","e","r","s","i","o","n"," ","b","u","m","p"," ","d","e","t","e","c","t","e","d",".">>)
                            ELSE <<>>)]
  ELSE IF nextVersion = TypeError
    THEN [value |-> TypeError, console |-> last.console]
  ELSE [value |-> nextVersion,
        console |-> last.console
                    \o (IF isPreview
                          THEN SummaryHead(last.value, parsed)
                               \o LogLine(<<"H","i","g","h","e","s","t"," ","b","u","m","p"," ","d","e","t","e","c","t","e","d",":"," ">> \o TextOf(bump))
                               \o LogLine(<<"N","e","x","t"," ","v","e","r","s","i","o","n",":"," ">> \o nextVersion.chars)
                          ELSE <<>>)]

\* the loop and bumpVersion(bump, baseVersion)
Resolved(isPreview, last, parsed, bump) ==
  Outcome(isPreview, last, parsed, bump, bumpVersion_bin(bump, last.value))

Analyzed(isPreview, last, parsed) ==
  Resolved(isPreview, last, parsed, BumpLoop_bin(parsed, 1, NoBump))

\* getCommitsSince(baseVersion, cwd).map(parseCommitLine)
ParsedLines(lines) == [i \in 1..Len(lines) |-> parseCommitLine(lines[i])]

Based(isPreview, last) ==
  Analyzed(isPreview, last, ParsedLines(getCommitsSince(last.value)))

\* computeVersion({ isPreview, cwd }): the next version, null, or the
\* exception of bumpVersion, and the lines written with console.log
computeVersion_bin(isPreview) == Based(isPreview, getLastTag_bin(isPreview))

(***************************************************************************)
(* SpecApi: a developer commits and tags; a program calls computeVersion   *)
(* of either engine                                                         *)
(***************************************************************************)
\* a call of computeVersion({ isPreview }) of bin/compute-version.js by a
\* process that has written nothing yet
ComputeVersionBin(isPreview) ==
  /\ stdout = <<>>
  /\ LET r == computeVersion_bin(isPreview)
     IN /\ result' = r.value
        /\ stdout' = stdout \o r.console
  /\ UNCHANGED <<repoVars, detectVars, bumpVars, argv, stderr, exitCode, worldVars>>

NextApi ==
  GitCommit \/ GitTag \/ ComputeVersion \/ \E isPreview \in BOOLEAN : ComputeVersionBin(isPreview)

SpecApi == Init /\ [][NextApi]_vars

(***************************************************************************)
(* C19: computeVersion is free of side effects for every input and every   *)
(* option value: a call writes no file, creates no tag, prints nothing to  *)
(* the console and does not end the process.                                *)
(***************************************************************************)
C19_SideEffectFree ==
  [][(ComputeVersion \/ \E isPreview \in BOOLEAN : ComputeVersionBin(isPreview))
       => UNCHANGED <<repoVars, procVars>>]_vars

(***************************************************************************)
(* What the claims about normalizeSubject speak of: the marker blocks at   *)
(* the start of a subject                                                   *)
(***************************************************************************)
\* the length of the shortcode block s starts with: ':' , characters that are
\* no white space, and the last ':' they reach; 0 when s starts with none
ShortcodeLen(s) ==
  LET ends == {j \in 3..Len(s) : s[1] = ":" /\ s[j] = ":" /\ \A k \in 2..(j - 1) : ~IsSpace(s[k])}
  IN IF ends = {} THEN 0 ELSE CHOOSE j \in ends : \A o \in ends : o <= j

\* the length of the run of emoji of U+1F300..U+1FAFF s starts with
EmojiLen(s) ==
  CHOOSE n \in 0..Len(s) :
    /\ \A k \in 1..n : s[k] = Rocket
    /\ (n < Len(s) => s[n + 1] /= Rocket)

\* s without its first n characters and the white space after them
WithoutBlock(s, n) == Drop(s, SkipSpaces(s, n + 1))

\* s without the one marker block it starts with, if it starts with one
StripOne(s) ==
  IF ShortcodeLen(s) > 0 THEN WithoutBlock(s, ShortcodeLen(s))
  ELSE IF EmojiLen(s) > 0 THEN WithoutBlock(s, EmojiLen(s))
  ELSE s

(***************************************************************************)
(* C23 as stated: normalizeSubject strips at most one leading marker       *)
(* block: of a shortcode followed by an emoji run, or by any second        *)
(* marker, only the first block is removed and the text after it is left   *)
(* as it is for the header match.                                           *)
(***************************************************************************)
C23_AtMostOneBlock ==
  Classified => CleanSubject = Trim(StripOne(subject))

(***************************************************************************)
(* C23 as amended: normalizeSubject removes a leading shortcode block and  *)
(* then a leading run of emoji, each at most once and in this order: a     *)
(* shortcode followed by an emoji run loses both blocks, and any other     *)
(* subject loses the one block it starts with at most (an emoji run        *)
(* followed by a shortcode keeps the shortcode, a shortcode followed by a  *)
(* second shortcode after white space keeps the second).                    *)
(***************************************************************************)
C23_ShortcodeThenEmoji ==
  Classified =>
    CleanSubject =
      Trim(IF ShortcodeLen(subject) > 0 /\ EmojiLen(StripOne(subject)) > 0
             THEN StripOne(StripOne(subject))
             ELSE StripOne(subject))

\* ':a: ' , a rocket and a feat header: both blocks are gone and the header
\* is classified minor
C23_Witness ==
  /\ bumpType = "minor"
  /\ ShortcodeLen(subject) > 0
  /\ EmojiLen(StripOne(subject)) > 0
  /\ body = <<>>
  /\ CleanSubject = <<"f","e","a","t",":"," ","x">>

(***************************************************************************)
(* What the claim about the scope speaks of: the header of a subject, the  *)
(* text before its first colon                                              *)
(***************************************************************************)
HasColon(s) == \E i \in 1..Len(s) : s[i] = ":"

FirstColon(s) == CHOOSE i \in 1..Len(s) : s[i] = ":" /\ \A k \in 1..(i - 1) : s[k] /= ":"

Header(s) == SubSeq(s, 1, FirstColon(s) - 1)

\* the header ends with '!'
EndsWithBang(h) == h /= <<>> /\ h[Len(h)] = "!"

\* a recognized type, '(' , any text, ')' , and '!' or nothing
IsScopedHeader(h) ==
  LET t == TypeWord(h)
      e == IF EndsWithBang(h) THEN Len(h) - 1 ELSE Len(h)
  IN /\ t \in Range(CommitTypes)
     /\ e >= Len(t) + 2
     /\ h[Len(t) + 1] = "("
     /\ h[e] = ")"

\* the header without its scope
WithoutScope(h) == SubSeq(h, 1, Len(TypeWord(h))) \o (IF EndsWithBang(h) THEN <<"!">> ELSE <<>>)

\* descriptions: plain text, and text that holds parentheses, '!' and colons
Descriptions ==
  { <<" ","x">>,
    <<>>,
    <<" ","b",")","!",":"," ","c">>,
    <<" ","b","(","c",")",":"," ","d">> }

(***************************************************************************)
(* C24: the scope is free text and ignored: for every recognized type,     *)
(* every scope text (the empty scope and text holding parentheses          *)
(* included) and every description, 'type(scope): description' classifies  *)
(* exactly as 'type: description', and no text after the first colon of    *)
(* the header changes the classification.                                   *)
(***************************************************************************)
C24_ScopeIgnored ==
  (Classified /\ HasColon(subject) /\ IsScopedHeader(Header(subject))) =>
    /\ bumpType = detectBumpType([subject |-> WithoutScope(Header(subject))
                                                \o Drop(subject, FirstColon(subject)),
                                  body |-> body])
    /\ \A d \in Descriptions :
         detectBumpType([subject |-> Header(subject) \o <<":">> \o d, body |-> body]) = bumpType

(***************************************************************************)
(* What the claim about monotonicity speaks of: versions as triples        *)
(***************************************************************************)
\* the number a component stands for, an absent or non-numeric one being 0
NumberOf(v) == IF v.type = "number" THEN v.n ELSE 0

\* (major, minor, patch) of a version string
ParsedTriple(s) ==
  LET parts == VersionParts(s)
  IN <<NumberOf(ElementAt(parts, 1)), NumberOf(ElementAt(parts, 2)), NumberOf(ElementAt(parts, 3))>>

\* a > b in lexicographic order
LexGreater(a, b) ==
  \/ a[1] > b[1]
  \/ a[1] = b[1] /\ a[2] > b[2]
  \/ a[1] = b[1] /\ a[2] = b[2] /\ a[3] > b[3]

BumpedTriple(s, kind) == ParsedTriple(bumpVersion(JsStr(s), kind).chars)

(***************************************************************************)
(* C26: version projection is monotonic: for every base version string and *)
(* every bump kind the version returned is strictly greater than the       *)
(* parsed base in (major, minor, patch) lexicographic order, and for a     *)
(* fixed base the major result > the minor result > the patch result.      *)
(***************************************************************************)
C26_Monotonic ==
  Bumped =>
    /\ LexGreater(ParsedTriple(versionOut.chars), ParsedTriple(versionIn))
    /\ LexGreater(BumpedTriple(versionIn, "major"), BumpedTriple(versionIn, "minor"))
    /\ LexGreater(BumpedTriple(versionIn, "minor"), BumpedTriple(versionIn, "patch"))

(***************************************************************************)
(* bin/generate-changelog.js: the renderer of one changelog section        *)
(***************************************************************************)
\* the subject and the body of a record, trimmed
parseCommit_changelog(line) ==
  LET f == Split(line, US)
  IN [hash |-> f[1],
      subject |-> Trim(IF Len(f) >= 2 THEN f[2] ELSE <<>>),
      body |-> Trim(IF Len(f) >= 3 THEN f[3] ELSE <<>>)]

\* String.prototype.toUpperCase of one character
ToUpper(c) ==
  IF c \in Range(LowerChars)
    THEN UpperChars[CHOOSE i \in 1..26 : LowerChars[i] = c]
    ELSE c

\* the index after group 1 of the patterns, (:\S+: )? at the start of s: 1
\* when the group matches nothing
AfterShortcode(s) ==
  LET ends == {k \in 3..(Len(s) - 1) :
                 /\ s[1] = ":"
                 /\ \A j \in 2..(k - 1) : ~IsSpace(s[j])
                 /\ s[k] = ":"
                 /\ s[k + 1] = " "}
  IN IF ends /= {} THEN (CHOOSE k \in ends : TRUE) + 2 ELSE 1

\* the index of the ':' that ends a match of (\(.+\))?(!)?: from index p of s
HeaderColon(s, p) ==
  LET At(i, c) == i <= Len(s) /\ s[i] = c
      closes == {j \in (p+2)..Len(s) :
                   /\ At(p, "(")
                   /\ s[j] = ")"
                   /\ \A k \in (p+1)..(j-1) : IsDot(s[k])
                   /\ (At(j+1, ":") \/ (At(j+1, "!") /\ At(j+2, ":")))}
  IN IF closes /= {}
       THEN LET j == CHOOSE e \in closes : \A o \in closes : o <= e
            IN IF At(j+1, "!") THEN j + 2 ELSE j + 1
       ELSE IF At(p, "!") THEN p + 1 ELSE p

\* the type prefix of t removed, given the match m of the pattern on t
WithoutPrefix(t, m) ==
  IF m.matched THEN Drop(t, SkipSpaces(t, HeaderColon(t, Len(m.type) + 1) + 1)) ELSE t

\* s ? s.charAt(0).toUpperCase() + s.slice(1) : s
Capitalized(t) == IF t = <<>> THEN t ELSE <<ToUpper(t[1])>> \o Tail(t)

cleanSubject(subject_) ==
  LET t == Drop(subject_, AfterShortcode(subject_))
  IN Capitalized(WithoutPrefix(t, DetectTypeFrom(t, 1)))

\* the keys of the buckets
BreakingKey == <<"b","r","e","a","k","i","n","g">>
ChoreKey == <<"c","h","o","r","e">>
BucketKeys == Range(DetectTypes) \cup {BreakingKey}

\* const buckets = { breaking: [], feat: [], ... }
EmptyBuckets == [k \in BucketKeys |-> <<>>]

\* subject.match(reType)
reType(s) ==
  FirstMatch(IF AfterShortcode(s) > 1 THEN DetectTypeFrom(s, AfterShortcode(s)) ELSE NoMatch,
             DetectTypeFrom(s, 1))

\* /!:/i.test(subject)
BangColonRe(s) == \E i \in 1..(Len(s) - 1) : s[i] = "!" /\ s[i + 1] = ":"

\* the key under which the loop of categorize pushes commit c, given the match
PushKey(c, match) ==
  IF BreakingRe(c.body) \/ BangColonRe(c.subject) THEN BreakingKey
  ELSE IF ~match.matched THEN ChoreKey
  ELSE IF match.type \in BucketKeys THEN match.type
  ELSE ChoreKey

\* what it pushes: desc || subject when nothing matched, desc otherwise
PushEntry(c, match, desc) ==
  [desc |-> IF ~BreakingRe(c.body) /\ ~BangColonRe(c.subject) /\ ~match.matched /\ desc = <<>>
              THEN c.subject ELSE desc,
   hash |-> c.hash]

\* b with entry e pushed under key k
Pushed(b, k, e) == [b EXCEPT ![k] = Append(@, e)]

\* the for loop of categorize from commit i on
RECURSIVE categorizeLoop(_, _, _)
categorizeLoop(cs, i, b) ==
  IF i > Len(cs) THEN b
  ELSE categorizeLoop(cs, i + 1,
         Pushed(b, PushKey(cs[i], reType(cs[i].subject)),
                PushEntry(cs[i], reType(cs[i].subject), cleanSubject(cs[i].subject))))

categorize(cs) == categorizeLoop(cs, 1, EmptyBuckets)

\* the keys and titles of buildSection, in display order
sections ==
  << <<<<"b","r","e","a","k","i","n","g">>,
       <<"#","#","#"," ","<U+1F4A5>">> \o <<" ","B","r","e","a","k","i","n","g"," ","C","h","a","n","g","e","s">>>>,
     <<<<"f","e","a","t">>,
       <<"#","#","#"," ","<U+2728>">> \o <<" ","F","e","a","t","u","r","e","s">>>>,
     <<<<"f","i","x">>,
       <<"#","#","#"," ","<U+1F41B>">> \o <<" ","F","i","x","e","s">>>>,
     <<<<"r","e","f","a","c","t","o","r">>,
       <<"#","#","#"," ","<U+2699>","<U+FE0F>">> \o <<" ","R","e","f","a","c","t","o","r">>>>,
     <<<<"c","h","o","r","e">>,
       <<"#","#","#"," ","<U+1F527>">> \o <<" ","C","h","o","r","e">>>>,
     <<<<"d","o","c","s">>,
       <<"#","#","#"," ","<U+1F4DA>">> \o <<" ","D","o","c","s">>>>,
     <<<<"s","t","y","l","e">>,
       <<"#","#","#"," ","<U+1F3A8>">> \o <<" ","S","t","y","l","e">>>>,
     <<<<"t","e","s","t">>,
       <<"#","#","#"," ","<U+1F9EA>">> \o <<" ","T","e","s","t","s">>>>,
     <<<<"b","u","i","l","d">>,
       <<"#","#","#"," ","<U+1F6E0>">> \o <<" ","B","u","i","l","d">>>>,
     <<<<"p","e","r","f">>,
       <<"#","#","#"," ","<U+26A1>">> \o <<" ","P","e","r","f","o","r","m","a","n","c","e">>>>,
     <<<<"c","i">>,
       <<"#","#","#"," ","<U+1F501>">> \o <<" ","C","I">>>>,
     <<<<"r","a","w">>,
       <<"#","#","#"," ","<U+1F5C3>">> \o <<" ","R","a","w">>>>,
     <<<<"c","l","e","a","n","u","p">>,
       <<"#","#","#"," ","<U+1F9F9>">> \o <<" ","C","l","e","a","n","u","p">>>>,
     <<<<"r","e","m","o","v","e">>,
       <<"#","#","#"," ","<U+1F5D1>">> \o <<" ","R","e","m","o","v","e">>>> >>

\* Array.prototype.join("\n")
RECURSIVE JoinLines(_)
JoinLines(out) ==
  IF out = <<>> THEN <<>>
  ELSE IF Len(out) = 1 THEN out[1]
  ELSE out[1] \o <<LF>> \o JoinLines(Tail(out))

\* `- ${c.desc}` for the entries of one bucket
Items(entries) == [i \in 1..Len(entries) |-> <<"-"," ">> \o entries[i].desc]

\* the elements pushed for the sections from index i of the table on
RECURSIVE SectionLoop(_, _, _)
SectionLoop(table, i, b) ==
  IF i > Len(table) THEN <<>>
  ELSE (IF Len(b[table[i][1]]) > 0
          THEN <<table[i][2] \o <<LF>>>> \o Items(b[table[i][1]]) \o <<NoText>>
          ELSE <<>>)
       \o SectionLoop(table, i + 1, b)

\* the elements of out after the heading, for the table of sections given
SectionBody(table, b) ==
  IF \A i \in 1..Len(table) : Len(b[table[i][1]]) = 0
    THEN << <<"_","N","o"," ","c","h","a","n","g","e","s",".","_",LF>> >>
    ELSE SectionLoop(table, 1, b)

\* buildSection with the table of sections read from its last row to its first
buildSection_Reversed(version, b) ==
  JoinLines(<< <<"#","#"," ">> \o version \o <<LF>> >>
            \o SectionBody([i \in 1..Len(sections) |-> sections[Len(sections) + 1 - i]], b))

buildSection(version, b) ==
  JoinLines(<< <<"#","#"," ">> \o version \o <<LF>> >> \o SectionBody(sections, b))

(***************************************************************************)
(* SpecSection: categorize and buildSection applied to a list of commits   *)
(* and a version                                                            *)
(***************************************************************************)
\* the most commits a section is rendered from
MaxSectionCommits == 2

\* commits of several buckets, commits the two classifiers read apart, a
\* subject that looks like a heading and a record without subject
SectionPool ==
  { Commit(<<"f","e","a","t",":"," ","a">>, NoText),
    Commit(<<"f","i","x",":"," ","b">>, NoText),
    Commit(<<"c","h","o","r","e",":"," ","c">>, NoText),
    Commit(<<"d","o","c","s",":"," ","f">>, NoText),
    Commit(<<"r","e","f","a","c","t","o","r","(","a","p","i",")",":"," ","r">>, NoText),
    Commit(<<"r","a","w",":"," ","w">>, NoText),
    Commit(<<"u","p","d","a","t","e"," ","r","e","a","d","m","e">>, NoText),
    Commit(<<"f","e","a","t","!",":"," ","d">>, NoText),
    Commit(<<"f","i","x",":"," ","h","a","n","d","l","e"," ","a","!",":"," ","b">>, NoText),
    Commit(<<":","s","p","a","r","k","l","e","s",":"," ","f","e","a","t",":"," ","e">>, NoText),
    Commit(<<Rocket," ","f","e","a","t",":"," ","g">>, NoText),
    Commit(<<"r","e","v","e","r","t",":"," ","f","e","a","t",":"," ","i">>, BreakingLine),
    Commit(<<"#","#"," ","9">>, NoText),
    Commit(NoText, NoText) }

Unreleased == <<"U","n","r","e","l","e","a","s","e","d">>

SectionVersions == { <<"1",".","2",".","3">>, Unreleased }

\* the commits as getCommitsBetween(...).map(parseCommit) hands them on
Parsed(cs) ==
  [i \in 1..Len(cs) |->
     parseCommit_changelog(HashOf(i) \o <<US>> \o cs[i].subject \o <<US>> \o cs[i].body)]

InitSection ==
  /\ hasRepo = TRUE
  /\ commits \in UNION {[1..n -> SectionPool] : n \in 0..MaxSectionCommits}
  /\ tags = {}
  /\ manifest = [kind |-> "missing"]
  /\ result = NoResult
  /\ subject = <<>>
  /\ body = <<>>
  /\ bumpType = "idle"
  /\ versionIn \in SectionVersions
  /\ bumpIn = "patch"
  /\ versionOut = NoResult
  /\ NoProcess
  /\ NoArtifacts

\* const buckets = categorize(commits); buildSection(version, buckets)
BuildSection ==
  /\ section = <<>>
  /\ buckets' = categorize(Parsed(commits))
  /\ section' = buildSection(versionIn, buckets')
  /\ UNCHANGED <<repoVars, result, detectVars, bumpVars, procVars, files, ghCalls, pushed>>

NextSection == BuildSection

SpecSection == InitSection /\ [][NextSection]_vars

(***************************************************************************)
(* What the claims about the renderer speak of: the lines of a section     *)
(***************************************************************************)
Rendered == section /= <<>>

StartsWith(l, p) == Len(l) >= Len(p) /\ SubSeq(l, 1, Len(p)) = p

\* the '### ' lines of a text, in the order they stand in it
SubHeadings(text) ==
  SelectSeq(Split(text, LF), LAMBDA l : StartsWith(l, <<"#","#","#"," ">>))

\* the display order of the categories
DisplayOrder ==
  << <<"b","r","e","a","k","i","n","g">>, <<"f","e","a","t">>, <<"f","i","x">>,
     <<"r","e","f","a","c","t","o","r">>, <<"c","h","o","r","e">>, <<"d","o","c","s">>,
     <<"s","t","y","l","e">>, <<"t","e","s","t">>, <<"b","u","i","l","d">>,
     <<"p","e","r","f">>, <<"c","i">>, <<"r","a","w">>,
     <<"c","l","e","a","n","u","p">>, <<"r","e","m","o","v","e">> >>

\* the place of the category a '### ' line is the title of, 0 for any other line
RankOfTitle(l) ==
  IF \E i \in 1..Len(sections) : sections[i][2] = l
    THEN LET k == sections[CHOOSE i \in 1..Len(sections) : sections[i][2] = l][1]
         IN CHOOSE r \in 1..Len(DisplayOrder) : DisplayOrder[r] = k
    ELSE 0

(***************************************************************************)
(* C22: every section rendered by buildSection has one '## <version>'      *)
(* heading, its first line, followed by its non-empty category subsections *)
(* in the fixed order breaking, feat, fix, refactor, chore, docs, style,   *)
(* test, build, perf, ci, raw, cleanup, remove, whatever the order of the  *)
(* commits given to categorize.                                             *)
(***************************************************************************)
C22_SectionShape ==
  Rendered =>
    LET lines == Split(section, LF)
        subs == SubHeadings(section)
    IN /\ lines[1] = <<"#","#"," ">> \o versionIn
       /\ Cardinality({i \in 1..Len(lines) : StartsWith(lines[i], <<"#","#"," ">>)}) = 1
       /\ \A i \in 1..Len(subs) : RankOfTitle(subs[i]) > 0
       /\ \A i \in 1..(Len(subs) - 1) : RankOfTitle(subs[i]) < RankOfTitle(subs[i + 1])
       /\ {DisplayOrder[RankOfTitle(subs[i])] : i \in 1..Len(subs)}
            = {k \in BucketKeys : buckets[k] /= <<>>}
       /\ \A i \in 1..Len(lines) :
            StartsWith(lines[i], <<"#","#","#"," ">>) =>
              /\ i + 2 <= Len(lines)
              /\ lines[i + 1] = <<>>
              /\ StartsWith(lines[i + 2], <<"-"," ">>)
       /\ \A o \in IndexOrders(1..Len(commits)) :
            SubHeadings(buildSection(versionIn, categorize(Reordered(Parsed(commits), o)))) = subs

\* a chore commit given before a feat commit: Features stands above Chore
C22_Witness ==
  /\ Rendered
  /\ Len(commits) = 2
  /\ buckets[ChoreKey] /= <<>>
  /\ buckets[ChoreKey][1].hash = HashOf(1)
  /\ buckets[<<"f","e","a","t">>] /= <<>>
  /\ Len(SubHeadings(section)) = 2
  /\ RankOfTitle(SubHeadings(section)[1]) = 2
  /\ RankOfTitle(SubHeadings(section)[2]) = 5

(***************************************************************************)
(* C25: the changelog groups commits by the engine's classification: for   *)
(* every commit, categorize places it in breaking exactly when             *)
(* detectBumpType returns major, in feat exactly when it returns minor,    *)
(* and in fix exactly when it returns patch (reverts, emoji-prefixed       *)
(* subjects and subjects holding '!:' included).                            *)
(***************************************************************************)
\* categorize placed the commit at index i of the list under key k
PlacedIn(i, k) == \E j \in 1..Len(buckets[k]) : buckets[k][j].hash = HashOf(i)

C25_GroupsByClassification ==
  Rendered =>
    \A i \in 1..Len(commits) :
      /\ PlacedIn(i, BreakingKey) <=> detectBumpType(commits[i]) = "major"
      /\ PlacedIn(i, <<"f","e","a","t">>) <=> detectBumpType(commits[i]) = "minor"
      /\ PlacedIn(i, <<"f","i","x">>) <=> detectBumpType(commits[i]) = "patch"


(***************************************************************************)
(* bin/create-tag.js: the script.  What git itself writes to the terminal  *)
(* the script shares with it is one mark for each failing command.          *)
(***************************************************************************)
\* the flags a caller passes
TagFlags == {"--dry-run", "--compute"}

ComputingLine == <<"<U+1F522>"," ","C","o","m","p","u","t","i","n","g"," ","v","e","r","s","i","o","n"," ","d","y","n","a","m","i","c","a","l","l","y",".",".",".">>
FailedComputeLine == <<"<U+274C>"," ","F","a","i","l","e","d"," ","t","o"," ","c","o","m","p","u","t","e"," ","v","e","r","s","i","o","n",".">>
NoBumpLine == <<"<U+2139>"," ","N","o"," ","v","e","r","s","i","o","n"," ","b","u","m","p"," ","d","e","t","e","c","t","e","d","."," ","S","k","i","p","p","i","n","g"," ","t","a","g"," ","c","r","e","a","t","i","o","n",".">>
UsingPackageLine == <<"<U+1F4E6>"," ","U","s","i","n","g"," ","v","e","r","s","i","o","n"," ","f","r","o","m"," ","p","a","c","k","a","g","e",".","j","s","o","n",".",".",".">>
FailedReadLine == <<"<U+274C>"," ","F","a","i","l","e","d"," ","t","o"," ","r","e","a","d"," ","p","a","c","k","a","g","e",".","j","s","o","n"," ","v","e","r","s","i","o","n",".">>
ReleaseVersionLine(tag) == <<"<U+1F516>"," ","R","e","l","e","a","s","e"," ","v","e","r","s","i","o","n",":"," ">> \o tag
TagExistsLine(tag) == <<"<U+274C>"," ","T","a","g"," ">> \o tag \o <<" ","a","l","r","e","a","d","y"," ","e","x","i","s","t","s",".">>
DryRunLine == <<"<U+1F9EA>"," ","D","r","y","-","r","u","n"," ","m","o","d","e"," ","e","n","a","b","l","e","d",".">>
WouldCreateLine(tag) == <<"W","o","u","l","d"," ","c","r","e","a","t","e"," ","a","n","n","o","t","a","t","e","d"," ","t","a","g",":"," ">> \o tag
\* const tagMessage = `Release ${tag}`
TagMessage(tag) == <<"R","e","l","e","a","s","e"," ">> \o tag
MessageLine(tag) == <<"M","e","s","s","a","g","e",":"," ","\"">> \o TagMessage(tag) \o <<"\"">>
VersionLine(tag) == <<"V","E","R","S","I","O","N","=">> \o tag
\* console.error("... Failed to create or push tag.", err)
FailedTagLine == <<"<U+274C>"," ","F","a","i","l","e","d"," ","t","o"," ","c","r","e","a","t","e"," ","o","r"," ","p","u","s","h"," ","t","a","g","."," ","<","E","r","r","o","r",">">>
\* what git wrote for the command that failed
GitFatal == "<fatal>"

\* JSON.stringify({ tag, tagMessage }, null, 2); a tag that is undefined is
\* left out
TagJson(version) ==
  <<"{">>
  \o (IF version = Undefined THEN <<>>
      ELSE <<LF, " ", " ">> \o JsonQuote(<<"t","a","g">>) \o <<":", " ">>
           \o JsonQuote(version.chars) \o <<",">>)
  \o <<LF, " ", " ">> \o JsonQuote(<<"t","a","g","M","e","s","s","a","g","e">>) \o <<":", " ">>
  \o JsonQuote(TagMessage(TextOfValue(version)))
  \o <<LF, "}">>

\* git tag -a <tag> fails outside a repository and in one without a commit;
\* no ref of the name exists when the script comes to it
GitTagAnnotated == hasRepo /\ commits /= <<>>

\* the script from its first line to its exit, for the arguments a, for what
\* its call of computeVersion came to (a result or the exception) and for
\* whether origin takes the push: what it wrote, the code it exited with,
\* and whether it made and pushed the tag
createTag(a, obj, pushOk) ==
  LET line(t) == t \o <<LF>>
      compute == "--compute" \in a
      version == IF compute
                   THEN IF obj /= TypeError /\ obj.hasRelease THEN obj.nextVersion
                        ELSE Undefined
                 ELSE IF manifest.kind = "object" THEN manifest.version
                 ELSE Undefined
      tag == TextOfValue(version)
      head == line(IF compute THEN ComputingLine ELSE UsingPackageLine)
      stop(out, err, code) ==
        [stdout |-> out, stderr |-> err, exitCode |-> Num(code),
         tag |-> tag, tagged |-> FALSE, pushed |-> FALSE]
  IN IF compute /\ obj = TypeError
       THEN stop(head, line(FailedComputeLine), 1)
     ELSE IF compute /\ ~Truthy(version)
       THEN stop(head \o line(NoBumpLine), <<>>, 10)
     ELSE IF ~compute /\ manifest.kind /= "object"
       THEN stop(head, line(FailedReadLine), 1)
     ELSE IF ResolveRef(tag).ok
       THEN stop(head \o line(ReleaseVersionLine(tag)), line(TagExistsLine(tag)), 1)
     ELSE IF "--dry-run" \in a
       THEN stop(head \o line(ReleaseVersionLine(tag)) \o line(DryRunLine)
                 \o line(WouldCreateLine(tag)) \o line(MessageLine(tag))
                 \o line(VersionLine(tag)), <<>>, 5)
     ELSE IF ~GitTagAnnotated
       THEN stop(head \o line(ReleaseVersionLine(tag)),
                 <<GitFatal>> \o line(FailedTagLine), 1)
     ELSE IF ~pushOk
       THEN [stdout |-> head \o line(ReleaseVersionLine(tag)),
             stderr |-> <<GitFatal>> \o line(FailedTagLine), exitCode |-> Num(1),
             tag |-> tag, tagged |-> TRUE, pushed |-> FALSE]
     ELSE [stdout |-> head \o line(ReleaseVersionLine(tag)) \o line(TagJson(version)),
           stderr |-> <<>>, exitCode |-> Num(0),
           tag |-> tag, tagged |-> TRUE, pushed |-> TRUE]

(***************************************************************************)
(* SpecTag: a developer commits and tags; computeVersion is called and the *)
(* script is run, any number of times                                       *)
(***************************************************************************)
\* node create-tag.js <flags>; result is what computeVersion answered it, and
\* origin takes the push or refuses it
CreateTag ==
  \E a \in SUBSET TagFlags, pushOk \in BOOLEAN :
    /\ result' = IF "--compute" \in a THEN computeVersion ELSE NoResult
    /\ \E exit \in {createTag(a, result', pushOk)} :
          /\ argv' = a
          /\ stdout' = exit.stdout
          /\ stderr' = exit.stderr
          /\ exitCode' = exit.exitCode
          /\ tags' = IF exit.tagged
                       THEN tags \cup {[name |-> exit.tag, at |-> Len(commits),
                                        annotated |-> TRUE,
                                        made |-> Cardinality(tags) + 1]}
                     ELSE tags
          /\ pushed' = IF exit.pushed THEN pushed \cup {exit.tag} ELSE pushed
    /\ UNCHANGED <<hasRepo, commits, manifest, detectVars, bumpVars,
                   files, buckets, section, ghCalls>>

\* the most commits of a history the script is run on
MaxTagCommits == 2

\* the commits of those histories
TagPool ==
  { Commit(<<"f","e","a","t",":"," ","a">>, NoText),
    Commit(<<"f","i","x",":"," ","b">>, NoText),
    Commit(<<"c","h","o","r","e",":"," ","c">>, NoText) }

NextTag ==
  \/ (GitCommit /\ Len(commits) < MaxTagCommits /\ commits'[Len(commits')] \in TagPool)
  \/ GitTag
  \/ ComputeVersion
  \/ CreateTag

SpecTag == Init /\ [][NextTag]_vars


(***************************************************************************)
(* What the claims about the script speak of                                *)
(***************************************************************************)
\* the step is a run of the script that shows: it wrote, exited with another
\* code, or changed the tags here or at origin
CreateTagRan ==
  /\ exitCode' /= Undefined
  /\ \/ procVars' /= procVars
     \/ tags' /= tags
     \/ pushed' /= pushed

\* the version the run had: nextVersion of a result with a release under
\* --compute, the version field of package.json without it
VersionOf(a, obj) ==
  IF "--compute" \in a
    THEN IF obj /= NoResult /\ obj /= TypeError /\ obj.hasRelease
           THEN obj.nextVersion ELSE Undefined
  ELSE IF manifest.kind = "object" THEN manifest.version ELSE Undefined

\* the tags the step made
NewTags == tags' \ tags

(***************************************************************************)
(* C27: create-tag runs 'git tag' and 'git push' only when a version was   *)
(* obtained (from package.json, or from computeVersion with --compute and  *)
(* a release), no ref named as that version exists yet, and --dry-run was  *)
(* not given; in each other case it exits with 10, 1 or 5 and neither      *)
(* creates nor pushes a tag.                                                *)
(***************************************************************************)
C27_TagsOnlyWithVersion ==
  [][CreateTagRan =>
       LET version == VersionOf(argv', result')
           mayTag == /\ version /= Undefined
                     /\ ~ResolveRef(TextOfValue(version)).ok
                     /\ "--dry-run" \notin argv'
       IN IF mayTag
            THEN /\ NewTags \subseteq {t \in tags' : t.name = version.chars}
                 /\ pushed' \subseteq pushed \cup {version.chars}
          ELSE /\ tags' = tags
               /\ pushed' = pushed
               /\ exitCode' \in {Num(10), Num(1), Num(5)}]_vars

(***************************************************************************)
(* C28: after create-tag --compute has tagged HEAD with the nextVersion    *)
(* computeVersion returned, a call of computeVersion with no new commit    *)
(* returns hasRelease = false, reason = no-commits and that nextVersion as *)
(* baseVersion, and a second run of create-tag --compute exits 10 and      *)
(* makes no tag.                                                            *)
(***************************************************************************)
\* the last run of create-tag --compute made and pushed its tag, and nothing
\* was committed or tagged since
JustTagged == exitCode = Num(0) /\ "--compute" \in argv

\* the tag made last
LastTagMade == CHOOSE t \in tags : \A o \in tags : o.made <= t.made

C28_NoSecondRelease ==
  JustTagged =>
    /\ LastTagMade.annotated /\ LastTagMade.at = Len(commits)
    /\ (Returned /\ result.hasRelease => result.nextVersion.chars = LastTagMade.name)
    /\ computeVersion = [hasRelease |-> FALSE, reason |-> "no-commits",
                         baseVersion |-> JsStr(LastTagMade.name),
                         commitsAnalyzed |-> 0]
    /\ \A pushOk \in BOOLEAN :
         LET again == createTag({"--compute"}, computeVersion, pushOk)
         IN again.exitCode = Num(10) /\ ~again.tagged /\ ~again.pushed

\* computeVersion was called after the tag was made
C28_Witness ==
  /\ JustTagged
  /\ NoRelease("no-commits")
  /\ Len(commits) = 2
  /\ \E t \in tags : ~t.annotated

(***************************************************************************)
(* C29: whenever create-tag exits with a code other than 0, the tags of    *)
(* the local repository are the ones it had before the run.                *)
(***************************************************************************)
C29_AllOrNothing ==
  [][CreateTagRan /\ exitCode' /= Num(0) => tags' = tags]_vars


(***************************************************************************)
(* bin/generate-changelog.js: generateChangelog                             *)
(***************************************************************************)
\* the names of TagNames as git tag --sort=-version:refname lists them
VersionSorted == << <<"v","1",".","2",".","3">>, <<"1",".","2",".","3">> >>

\* the first sort strategy answers in a repository and none does outside one
getAllTags ==
  IF ~hasRepo THEN <<>>
  ELSE SelectSeq(VersionSorted, LAMBDA n : \E t \in tags : t.name = n)

\* from is a tag name or null
getCommitsBetween(from, to) ==
  getCommits(IF Truthy(from) THEN from.chars \o <<".", ".">> \o to ELSE to)

\* \b at index k of s: exactly one of the characters before and at k is of \w
WordBoundary(s, k) ==
  (k > 1 /\ k - 1 <= Len(s) /\ IsWord(s[k - 1])) /= (k <= Len(s) /\ IsWord(s[k]))

\* new RegExp(`^##\\s+${safe}\\b`, "m").test(content) of an existing file
changelogHasVersion(file, version) ==
  /\ files[file].exists
  /\ LET content == files[file].content
     IN \E i \in 1..Len(content) :
          /\ i = 1 \/ content[i - 1] = LF
          /\ i + 1 <= Len(content) /\ content[i] = "#" /\ content[i + 1] = "#"
          /\ LET p == SkipSpaces(content, i + 2)
             IN /\ p > i + 2
                /\ p + Len(version) - 1 <= Len(content)
                /\ SubSeq(content, p, p + Len(version) - 1) = version
                /\ WordBoundary(content, p + Len(version))

ParsedChangelog(lines) == [i \in 1..Len(lines) |-> parseCommit_changelog(lines[i])]

\* the section of the commits, none when there is none
SectionOf(version, cs) ==
  IF Len(cs) > 0 THEN <<buildSection(version, categorize(cs))>> ELSE <<>>

\* the upcoming version
UpcomingSection(file, nextVersion, lastTag) ==
  IF changelogHasVersion(file, nextVersion) THEN <<>>
  ELSE SectionOf(nextVersion, ParsedChangelog(getCommitsBetween(lastTag, HeadRef)))

\* the loop over the tags from index i on
RECURSIVE TagSections(_, _, _)
TagSections(file, all, i) ==
  IF i > Len(all) THEN <<>>
  ELSE (IF changelogHasVersion(file, all[i]) THEN <<>>
        ELSE SectionOf(all[i],
               ParsedChangelog(getCommitsBetween(
                 IF i + 1 <= Len(all) THEN JsStr(all[i + 1]) ELSE Null, all[i]))))
       \o TagSections(file, all, i + 1)

NoBumpPreviewLine == <<"<U+2139>"," ","N","o"," ","v","e","r","s","i","o","n"," ","b","u","m","p"," ","d","e","t","e","c","t","e","d",","," ","s","h","o","w","i","n","g"," ","U","n","r","e","l","e","a","s","e","d"," ","s","e","c","t","i","o","n",".">>
NoNewVersionsLine == <<"<U+2139>"," ","N","o"," ","n","e","w"," ","v","e","r","s","i","o","n","s"," ","t","o"," ","a","d","d",".">>
ChangelogPreviewLine == <<"C","H","A","N","G","E","L","O","G"," ","p","r","e","v","i","e","w"," ","g","e","n","e","r","a","t","e","d",".">>
ChangelogUpdatedLine == <<"C","H","A","N","G","E","L","O","G"," ","u","p","d","a","t","e","d",".">>

\* const nextVersion = obj.nextVersion || "Unreleased"
NextVersionOf(obj) ==
  IF obj.hasRelease /\ Truthy(obj.nextVersion) THEN obj.nextVersion.chars ELSE Unreleased

\* what follows the loops, for the file, the lines written so far and the
\* sections pushed
WriteSections(isPreview, file, first, new) ==
  LET line(t) == t \o <<LF>>
  IN IF new = <<>>
       THEN [files |-> files, stdout |-> first \o line(NoNewVersionsLine)]
     ELSE IF isPreview
       THEN [files |-> [files EXCEPT ![file] = Holding(JoinLines(new))],
             stdout |-> first \o line(ChangelogPreviewLine)]
     ELSE [files |-> [files EXCEPT ![file] =
                        Holding(JoinLines(new)
                                \o (IF files[file].exists
                                      THEN <<LF>> \o files[file].content
                                      ELSE <<>>))],
           stdout |-> first \o line(ChangelogUpdatedLine)]

\* the two loops, for the file, the tags and the upcoming version
NewSections(file, all, nextVersion) ==
  UpcomingSection(file, nextVersion, IF Len(all) > 0 THEN JsStr(all[1]) ELSE Null)
  \o TagSections(file, all, 1)

\* generateChangelog that takes CHANGELOG.md for its file in preview mode too
generateChangelog_RealFile(isPreview, obj) ==
  WriteSections(FALSE, ChangelogFile,
                IF NextVersionOf(obj) = Unreleased /\ isPreview
                  THEN NoBumpPreviewLine \o <<LF>> ELSE <<>>,
                NewSections(ChangelogFile, getAllTags, NextVersionOf(obj)))

\* generateChangelog({ isPreview }) for what its call of computeVersion
\* returned: the files after it and the lines it wrote with console.log
generateChangelog(isPreview, obj) ==
  WriteSections(isPreview,
                IF isPreview THEN ChangelogPreviewFile ELSE ChangelogFile,
                IF NextVersionOf(obj) = Unreleased /\ isPreview
                  THEN NoBumpPreviewLine \o <<LF>> ELSE <<>>,
                NewSections(IF isPreview THEN ChangelogPreviewFile ELSE ChangelogFile,
                            getAllTags, NextVersionOf(obj)))

\* PREVIEW_MODE=<isPreview> node generate-changelog.js: main calls
\* generateChangelog; the exception of computeVersion ends the process
GenerateChangelog(isPreview) ==
  /\ result' = computeVersion
  /\ argv' = IF isPreview THEN {PreviewMode} ELSE {}
  /\ IF result' = TypeError
       THEN /\ files' = files
            /\ stdout' = <<>>
            /\ stderr' = UncaughtTypeError \o <<LF>>
            /\ exitCode' = Num(1)
       ELSE \E log \in {generateChangelog(isPreview, result')} :
              /\ files' = log.files
              /\ stdout' = log.stdout
              /\ stderr' = <<>>
              /\ exitCode' = Num(0)
  /\ UNCHANGED <<repoVars, detectVars, bumpVars, buckets, section, ghCalls, pushed>>

(***************************************************************************)
(* SpecChangelog: a developer commits and tags; the change log is          *)
(* generated, any number of times                                           *)
(***************************************************************************)
\* the most commits of a history a change log is generated from
MaxLogCommits == 2

\* the commits of those histories
LogPool ==
  { Commit(<<"f","e","a","t",":"," ","a">>, NoText),
    Commit(<<"f","i","x",":"," ","b">>, NoText),
    Commit(<<"c","h","o","r","e",":"," ","c">>, NoText) }

LogCommit == GitCommit /\ Len(commits) < MaxLogCommits /\ commits'[Len(commits')] \in LogPool

NextChangelog == LogCommit \/ GitTag \/ GenerateChangelog(FALSE)

SpecChangelog == Init /\ [][NextChangelog]_vars

(***************************************************************************)
(* What the claim about the change log speaks of: the sections of the file *)
(***************************************************************************)
\* the lines of CHANGELOG.md
ChangelogLines ==
  IF files[ChangelogFile].exists THEN Split(files[ChangelogFile].content, LF) ELSE <<>>

IsHeading(l) == StartsWith(l, <<"#","#"," ">>)

IsItem(l) == StartsWith(l, <<"-"," ">>)

\* the indices of the heading lines
HeadingsAt == {i \in 1..Len(ChangelogLines) : IsHeading(ChangelogLines[i])}

\* the heading line the line at index i stands under
HeadingOf(i) ==
  ChangelogLines[CHOOSE h \in HeadingsAt : h <= i /\ \A o \in HeadingsAt : o <= i => o <= h]

\* no two commits of the history have the same subject: an item names one commit
DistinctSubjects ==
  \A i, j \in 1..Len(commits) : commits[i].subject = commits[j].subject => i = j

(***************************************************************************)
(* C30: after any sequence of non-preview generateChangelog runs between   *)
(* commits and tags, CHANGELOG.md holds no two sections with the same      *)
(* heading and lists no commit under two different headings, an            *)
(* 'Unreleased' heading included.                                           *)
(***************************************************************************)
C30_OneSectionPerCommit ==
  /\ \A h, k \in HeadingsAt : ChangelogLines[h] = ChangelogLines[k] => h = k
  /\ DistinctSubjects =>
       \A i, j \in 1..Len(ChangelogLines) :
         (/\ IsItem(ChangelogLines[i])
          /\ ChangelogLines[i] = ChangelogLines[j]
          /\ \E h \in HeadingsAt : h <= i
          /\ \E h \in HeadingsAt : h <= j)
         => HeadingOf(i) = HeadingOf(j)


(***************************************************************************)
(* bin/generate-release-notes.js: generateReleaseNotes.  gh is what the    *)
(* GitHub command line would answer: whether it is installed, the merged   *)
(* pull requests it lists, and whether it shows the commits of one.        *)
(***************************************************************************)
GhRequiredLine == <<"<U+274C>"," ","G","i","t","H","u","b"," ","C","L","I"," ","(","g","h",")"," ","i","s"," ","r","e","q","u","i","r","e","d"," ","b","u","t"," ","n","o","t"," ","i","n","s","t","a","l","l","e","d",".">>
GhInstallLine == <<" "," "," ","I","n","s","t","a","l","l",":"," ","h","t","t","p","s",":","/","/","c","l","i",".","g","i","t","h","u","b",".","c","o","m","/">>
GhNotRequiredLine == <<"<U+2139>"," ","P","r","e","v","i","e","w"," ","m","o","d","e",":"," ","G","H"," ","C","L","I"," ","n","o","t"," ","r","e","q","u","i","r","e","d",".">>
NoPreviousTagsLine == <<"<U+26A0>"," ","N","o"," ","p","r","e","v","i","o","u","s"," ","t","a","g","s"," ","f","o","u","n","d"," ","<U+2014>"," ","f","i","r","s","t"," ","r","e","l","e","a","s","e","?">>
LastTagLine == <<"L","a","s","t"," ","t","a","g",":"," ">>
NoneText == <<"(","n","o","n","e",")">>
WhatsChanged == <<"#"," ","W","h","a","t","'","s"," ","C","h","a","n","g","e","d",LF,LF>>
NoChangesText == <<"_","N","o"," ","c","h","a","n","g","e","s"," ","s","i","n","c","e"," ","l","a","s","t"," ","r","e","l","e","a","s","e",".","_",LF,LF>>
NotesPreviewLine == <<"<U+2714>"," ","G","e","n","e","r","a","t","e","d"," ","R","E","L","E","A","S","E","_","N","O","T","E","S",".","p","r","e","v","i","e","w",".","m","d">>
NotesGeneratedLine == <<"<U+2714>"," ","G","e","n","e","r","a","t","e","d"," ","R","E","L","E","A","S","E","_","N","O","T","E","S",".","m","d">>
\* `Could not fetch commits for PR #${pr.number}: ${err.message}`
CouldNotFetchLine(pr) == <<"<U+26A0>"," ","C","o","u","l","d"," ","n","o","t"," ","f","e","t","c","h"," ","c","o","m","m","i","t","s"," ","f","o","r"," ","P","R"," ","#">> \o pr.number \o <<":"," ","<","m","e","s","s","a","g","e",">">>

\* what node writes for an exception nothing catches: of fs.readFileSync for
\* a missing file, of JSON.parse, of pkg.version for the value null
UncaughtOf(kind) ==
  IF kind = "missing" THEN <<"E","N","O","E","N","T">>
  ELSE IF kind = "malformed" THEN <<"S","y","n","t","a","x","E","r","r","o","r">>
  ELSE UncaughtTypeError

\* a merged pull request and the headlines of its commits
PullRequest ==
  [number |-> <<"7">>, title |-> <<"T">>, login |-> <<"u">>, url |-> <<"l">>,
   headlines |-> << <<"m">> >>]

\* `  - ${msg}\n` for each headline
RECURSIVE HeadlineNotes(_)
HeadlineNotes(messages) ==
  IF messages = <<>> THEN <<>>
  ELSE <<" "," ","-"," ">> \o Head(messages) \o <<LF>> \o HeadlineNotes(Tail(messages))

\* the for loop over prList
RECURSIVE PrNotes(_, _, _)
PrNotes(prList, isPreview, viewOk) ==
  IF prList = <<>> THEN <<>>
  ELSE <<"-"," ">> \o Head(prList).title \o <<" ","b","y"," ","@">> \o Head(prList).login
       \o <<" ","i","n"," ">> \o Head(prList).url \o <<LF>>
       \o HeadlineNotes(IF ~isPreview /\ viewOk THEN Head(prList).headlines ELSE <<>>)
       \o <<LF>>
       \o PrNotes(Tail(prList), isPreview, viewOk)

\* the lines console.error gets for the pull requests gh pr view fails on
RECURSIVE PrWarnings(_, _, _)
PrWarnings(prList, isPreview, viewOk) ==
  IF prList = <<>> \/ isPreview \/ viewOk THEN <<>>
  ELSE CouldNotFetchLine(Head(prList)) \o <<LF>> \o PrWarnings(Tail(prList), isPreview, viewOk)

\* generateReleaseNotes({ isPreview }) on the files fs: the files after it,
\* what it wrote, the code it ended the process with (undefined when it
\* returned) and the times it ran gh.  No package.json of the model names a
\* repository, so the notes end without a compare link.
generateReleaseNotes(isPreview, fs, gh) ==
  LET line(t) == t \o <<LF>>
      first == IF isPreview THEN line(GhNotRequiredLine) ELSE <<>>
      described == run(GitDescribe)
      lastTag == IF described.ok THEN described.out ELSE <<>>
      prList == IF isPreview THEN <<>> ELSE gh.prs
      notes == WhatsChanged
               \o (IF prList = <<>> THEN NoChangesText ELSE <<>>)
               \o PrNotes(prList, isPreview, gh.viewOk)
      target == IF isPreview THEN NotesPreviewFile ELSE NotesFile
  IN IF ~isPreview /\ ~gh.installed
       THEN [files |-> fs, stdout |-> <<>>,
             stderr |-> line(GhRequiredLine) \o line(GhRequiredLine) \o line(GhInstallLine),
             exitCode |-> Num(2), ghCalls |-> 1]
     ELSE IF manifest.kind /= "object"
       THEN [files |-> fs, stdout |-> first,
             stderr |-> line(UncaughtOf(manifest.kind)),
             exitCode |-> Num(1), ghCalls |-> IF isPreview THEN 0 ELSE 1]
     ELSE [files |-> [fs EXCEPT ![target] = Holding(notes)],
           stdout |-> first
                      \o (IF described.ok THEN <<>> ELSE line(NoPreviousTagsLine))
                      \o line(LastTagLine \o (IF lastTag = <<>> THEN NoneText ELSE lastTag))
                      \o line(IF isPreview THEN NotesPreviewLine ELSE NotesGeneratedLine),
           stderr |-> PrWarnings(prList, isPreview, gh.viewOk),
           exitCode |-> Undefined,
           ghCalls |-> IF isPreview THEN 0 ELSE 2 + Len(prList)]

\* the most runs of gh after which the release notes are still generated
MaxGhCalls == 1

\* what gh would answer: it is not installed, it lists no pull request, it
\* lists one and shows its commits or fails to
GhAnswers ==
  { [installed |-> FALSE, prs |-> <<>>, viewOk |-> FALSE],
    [installed |-> TRUE, prs |-> <<>>, viewOk |-> TRUE],
    [installed |-> TRUE, prs |-> <<PullRequest>>, viewOk |-> TRUE],
    [installed |-> TRUE, prs |-> <<PullRequest>>, viewOk |-> FALSE] }

\* PREVIEW_MODE=<isPreview> node generate-release-notes.js
GenerateReleaseNotes(isPreview) ==
  \E gh \in GhAnswers :
    /\ isPreview \/ ghCalls < MaxGhCalls
    /\ \E out \in {generateReleaseNotes(isPreview, files, gh)} :
          /\ files' = out.files
          /\ stdout' = out.stdout
          /\ stderr' = out.stderr
          /\ exitCode' = IF out.exitCode = Undefined THEN Num(0) ELSE out.exitCode
          /\ ghCalls' = ghCalls + out.ghCalls
    /\ argv' = IF isPreview THEN {PreviewMode} ELSE {}
    /\ UNCHANGED <<repoVars, result, detectVars, bumpVars, buckets, section, pushed>>

(***************************************************************************)
(* bin/preview.js                                                           *)
(***************************************************************************)
UsageLine == <<"U","s","a","g","e",":"," ","p","r","e","v","i","e","w",".","j","s"," ","[","c","r","e","a","t","e","|","r","e","m","o","v","e","]">>
GeneratingLine == <<"<U+1F527>"," ","G","e","n","e","r","a","t","i","n","g"," ","p","r","e","v","i","e","w"," ","f","i","l","e","s",".",".",".">>
ComputedVersionLine == <<"<U+1F516>"," ","C","o","m","p","u","t","e","d"," ","v","e","r","s","i","o","n",":">>
PreviewReadyText == <<"<U+2705>"," ","P","r","e","v","i","e","w"," ","r","e","a","d","y",":",LF," ","-"," ","C","H","A","N","G","E","L","O","G",".","p","r","e","v","i","e","w",".","m","d",LF," ","-"," ","R","E","L","E","A","S","E","_","N","O","T","E","S",".","p","r","e","v","i","e","w",".","m","d",LF>>
RemovingLine == <<"<U+1F9F9>"," ","R","e","m","o","v","i","n","g"," ","p","r","e","v","i","e","w"," ","f","i","l","e","s",".",".",".">>
PreviewClearedLine == <<"<U+2714>"," ","P","r","e","v","i","e","w"," ","c","l","e","a","r","e","d",".">>

\* util.inspect of a value of a ComputeResult
InspectValue(kind, v) ==
  CASE kind = "boolean" -> (IF v THEN <<"t","r","u","e">> ELSE <<"f","a","l","s","e">>)
    [] kind = "number" -> NatToString(v)
    [] kind = "word" -> <<"'">> \o TextOf(v) \o <<"'">>
    [] kind = "string" -> <<"'">> \o v.chars \o <<"'">>
    [] kind = "undefined" -> <<"u","n","d","e","f","i","n","e","d">>

\* the members of a ComputeResult in the order its keys were created
InspectMembers(r) ==
  LET version(v) == IF v = Undefined THEN "undefined" ELSE "string"
  IN IF r.hasRelease
       THEN << <<<<"h","a","s","R","e","l","e","a","s","e">>, "boolean", r.hasRelease>>,
               <<<<"b","a","s","e","V","e","r","s","i","o","n">>, version(r.baseVersion), r.baseVersion>>,
               <<<<"n","e","x","t","V","e","r","s","i","o","n">>, "string", r.nextVersion>>,
               <<<<"b","u","m","p">>, "word", r.bump>>,
               <<<<"c","o","m","m","i","t","s","A","n","a","l","y","z","e","d">>, "number", r.commitsAnalyzed>> >>
       ELSE << <<<<"h","a","s","R","e","l","e","a","s","e">>, "boolean", r.hasRelease>>,
               <<<<"r","e","a","s","o","n">>, "word", r.reason>>,
               <<<<"b","a","s","e","V","e","r","s","i","o","n">>, version(r.baseVersion), r.baseVersion>>,
               <<<<"c","o","m","m","i","t","s","A","n","a","l","y","z","e","d">>, "number", r.commitsAnalyzed>> >>

RECURSIVE InspectLines(_)
InspectLines(ms) ==
  IF ms = <<>> THEN <<>>
  ELSE <<LF, " ", " ">> \o ms[1][1] \o <<":", " ">> \o InspectValue(ms[1][2], ms[1][3])
       \o (IF Len(ms) > 1 THEN <<",">> ELSE <<>>) \o InspectLines(Tail(ms))

\* console.log(versionOutput): the members are too long for one line of 80
Inspect(r) == <<"{">> \o InspectLines(InspectMembers(r)) \o <<LF, "}">>

\* node preview.js create
PreviewCreate ==
  \E gh \in GhAnswers :
    /\ result' = computeVersion
    /\ argv' = {"create"}
    /\ IF result' = TypeError
         THEN /\ files' = files
              /\ stdout' = GeneratingLine \o <<LF>>
              /\ stderr' = UncaughtTypeError \o <<LF>>
              /\ exitCode' = Num(1)
              /\ ghCalls' = ghCalls
         ELSE \E log \in {generateChangelog(TRUE, result')} :
              \E out \in {generateReleaseNotes(TRUE, log.files, gh)} :
                 /\ files' = out.files
                 /\ stdout' = GeneratingLine \o <<LF>> \o ComputedVersionLine \o <<LF>>
                              \o Inspect(result') \o <<LF>> \o log.stdout \o out.stdout
                              \o (IF out.exitCode = Undefined THEN PreviewReadyText ELSE <<>>)
                 /\ stderr' = out.stderr
                 /\ exitCode' = IF out.exitCode = Undefined THEN Num(0) ELSE out.exitCode
                 /\ ghCalls' = ghCalls + out.ghCalls
    /\ UNCHANGED <<repoVars, detectVars, bumpVars, buckets, section, pushed>>

\* node preview.js remove
PreviewRemove ==
  /\ argv' = {"remove"}
  /\ files' = [files EXCEPT ![ChangelogPreviewFile] = Absent, ![NotesPreviewFile] = Absent]
  /\ stdout' = RemovingLine \o <<LF>> \o PreviewClearedLine \o <<LF>>
  /\ stderr' = <<>>
  /\ exitCode' = Num(0)
  /\ UNCHANGED <<repoVars, result, detectVars, bumpVars, buckets, section, ghCalls, pushed>>

\* node preview.js with no action or with another one
PreviewUsage ==
  /\ argv' = {}
  /\ stdout' = UsageLine \o <<LF>>
  /\ stderr' = <<>>
  /\ exitCode' = Num(1)
  /\ UNCHANGED <<repoVars, result, detectVars, bumpVars, worldVars>>

(***************************************************************************)
(* SpecPreview: a developer commits and tags; the change log and the       *)
(* release notes are generated for real and in preview mode, and previews  *)
(* are created and removed                                                  *)
(***************************************************************************)
\* the most commits of a history the previews are made of
MaxPreviewCommits == 1

\* the commits of those histories
PreviewPool == { Commit(<<"f","e","a","t",":"," ","a">>, NoText) }

\* a repository whose package.json is missing or holds a version
InitPreview ==
  /\ Init
  /\ hasRepo
  /\ manifest \in {[kind |-> "missing"],
                   [kind |-> "object", version |-> JsStr(<<"1",".","4",".","2">>)]}

PreviewCommit ==
  GitCommit /\ Len(commits) < MaxPreviewCommits /\ commits'[Len(commits')] \in PreviewPool

NextPreview ==
  \/ PreviewCommit
  \/ GitTag
  \/ \E isPreview \in BOOLEAN : GenerateChangelog(isPreview)
  \/ \E isPreview \in BOOLEAN : GenerateReleaseNotes(isPreview)
  \/ PreviewCreate
  \/ PreviewRemove
  \/ PreviewUsage

SpecPreview == InitPreview /\ [][NextPreview]_vars

(***************************************************************************)
(* C21: in preview mode the real artifacts are never touched:              *)
(* generateChangelog and generateReleaseNotes with isPreview = true and    *)
(* 'preview create' / 'preview remove' create, modify or delete only       *)
(* CHANGELOG.preview.md and RELEASE_NOTES.preview.md, leave CHANGELOG.md   *)
(* and RELEASE_NOTES.md unchanged, and never run the gh command line.      *)
(***************************************************************************)
\* the step is a run of generate-changelog.js or generate-release-notes.js
\* with PREVIEW_MODE=true, or of preview.js create or remove: every other
\* step leaves the process without arguments
PreviewStep ==
  /\ exitCode' /= Undefined
  /\ argv' \in {{PreviewMode}, {"create"}, {"remove"}}

C21_PreviewLeavesRealFiles ==
  [][PreviewStep =>
       /\ files'[ChangelogFile] = files[ChangelogFile]
       /\ files'[NotesFile] = files[NotesFile]
       /\ ghCalls' = ghCalls
       /\ UNCHANGED <<repoVars, pushed>>]_vars

\* 'preview create' has written both previews beside real artifacts that
\* hold other text, gh having been run for the real notes only
C21_Witness ==
  /\ argv = {"create"}
  /\ exitCode = Num(0)
  /\ \A f \in FileNames : files[f].exists
  /\ files[ChangelogPreviewFile] /= files[ChangelogFile]
  /\ files[NotesPreviewFile] /= files[NotesFile]
  /\ ghCalls > 0

====
